---- MODULE Spec2Model ----
(***************************************************************************)
(* Session / frame lifecycle of the OpenXR state tracker                   *)
(* (src/xrt/state_trackers/oxr/oxr_session.c).                             *)
(*                                                                         *)
(* One session is modelled.  Every entry point of oxr_session.c is one     *)
(* operator that maps the session it is handed to the session it leaves,   *)
(* the result code and the ordered log of what the call did to its         *)
(* collaborators (state-change events pushed, compositor calls, clock      *)
(* updates).  The actions apply these operators to the live session.       *)
(***************************************************************************)
EXTENDS Integers, Sequences, FiniteSets, TLC

VARIABLES
    sys,          \* the oxr_system / instance the session refers to
    have_session, \* TRUE once oxr_session_create handed out a session
    sess,         \* the fields of struct oxr_session used by this file
    last,         \* the call that just returned: op, args, ret, log, pre
    alive,        \* FALSE once the process died in a call
    xc_state,     \* what the compositor was last told: session begun, frame begun
    last_event    \* the state of the newest state-change event pushed

vars == <<sys, have_session, sess, last, alive, xc_state, last_event>>

(***************************************************************************)
(* Result codes and session states, by their names in the source.          *)
(***************************************************************************)
XR_SUCCESS == "XR_SUCCESS"
XR_FRAME_DISCARDED == "XR_FRAME_DISCARDED"
XR_ERROR_SESSION_RUNNING == "XR_ERROR_SESSION_RUNNING"
XR_ERROR_SESSION_NOT_RUNNING == "XR_ERROR_SESSION_NOT_RUNNING"
XR_ERROR_SESSION_NOT_STOPPING == "XR_ERROR_SESSION_NOT_STOPPING"
XR_ERROR_VIEW_CONFIGURATION_TYPE_UNSUPPORTED == "XR_ERROR_VIEW_CONFIGURATION_TYPE_UNSUPPORTED"
XR_ERROR_VALIDATION_FAILURE == "XR_ERROR_VALIDATION_FAILURE"
XR_ERROR_RUNTIME_FAILURE == "XR_ERROR_RUNTIME_FAILURE"
XR_ERROR_CALL_ORDER_INVALID == "XR_ERROR_CALL_ORDER_INVALID"
XR_ERROR_TIME_INVALID == "XR_ERROR_TIME_INVALID"
XR_ERROR_LAYER_INVALID == "XR_ERROR_LAYER_INVALID"
XR_ERROR_POSE_INVALID == "XR_ERROR_POSE_INVALID"
XR_ERROR_SWAPCHAIN_RECT_INVALID == "XR_ERROR_SWAPCHAIN_RECT_INVALID"
XR_ERROR_ENVIRONMENT_BLEND_MODE_UNSUPPORTED == "XR_ERROR_ENVIRONMENT_BLEND_MODE_UNSUPPORTED"
XR_ERROR_SIZE_INSUFFICIENT == "XR_ERROR_SIZE_INSUFFICIENT"

\* The call did not return: the process died inside it.
CRASHED == "CRASHED"

XR_SESSION_STATE_UNKNOWN == "UNKNOWN"
XR_SESSION_STATE_IDLE == "IDLE"
XR_SESSION_STATE_READY == "READY"
XR_SESSION_STATE_SYNCHRONIZED == "SYNCHRONIZED"
XR_SESSION_STATE_VISIBLE == "VISIBLE"
XR_SESSION_STATE_FOCUSED == "FOCUSED"
XR_SESSION_STATE_STOPPING == "STOPPING"
XR_SESSION_STATE_EXITING == "EXITING"

SessionStates ==
    { XR_SESSION_STATE_IDLE, XR_SESSION_STATE_READY,
      XR_SESSION_STATE_SYNCHRONIZED, XR_SESSION_STATE_VISIBLE,
      XR_SESSION_STATE_FOCUSED, XR_SESSION_STATE_STOPPING,
      XR_SESSION_STATE_EXITING }

\* sess->compositor: NULL on a headless session.
NULL == "NULL"
XC == "xc"

ViewConfigTypes == {"PRIMARY_STEREO", "PRIMARY_MONO"}

(***************************************************************************)
(* The log of one call.                                                    *)
(***************************************************************************)
\* oxr_event_push_XrEventDataSessionStateChanged(log, sess, state, 0)
Event(state) == [kind |-> "event", state |-> state]
\* a call on the compositor, xrt_comp_*(xc, ...)
Comp(call) == [kind |-> "xc", call |-> call]
\* time_state_get_now_and_update(timekeeping)
ClockUpdate == [kind |-> "clock"]

RECURSIVE SelectKind(_, _)
SelectKind(log, kind) ==
    IF log = <<>> THEN <<>>
    ELSE IF Head(log).kind = kind
         THEN <<Head(log)>> \o SelectKind(Tail(log), kind)
         ELSE SelectKind(Tail(log), kind)

\* the states announced by a log, in order
EventStates(log) ==
    LET ev == SelectKind(log, "event")
    IN  [i \in 1..Len(ev) |-> ev[i].state]

\* the names of the compositor calls of a log, in order
CompCalls(log) ==
    LET cs == SelectKind(log, "xc")
    IN  [i \in 1..Len(cs) |-> cs[i].call]

(***************************************************************************)
(* The session.                                                            *)
(***************************************************************************)
\* The handle allocator hands out zeroed memory.
AllocatedSession ==
    [ state |-> XR_SESSION_STATE_UNKNOWN,
      frame_started |-> FALSE,
      exiting |-> FALSE,
      compositor |-> NULL ]

\* The running context of a call: the session and the log so far.
Ctx(s) == [sess |-> s, log |-> <<>>]

Emit(c, entry) == [c EXCEPT !.log = Append(@, entry)]

\* *frameState of xrWaitFrame before the call writes to it
NoOut == [shouldRender |-> "unset", predictedDisplayTime |-> "unset",
          predictedDisplayPeriod |-> "unset"]

\* What a call hands back: the session, the result code, the log and the
\* output structure (written by oxr_session_frame_wait only).
ResultOut(c, ret, out) == [sess |-> c.sess, ret |-> ret, log |-> c.log, out |-> out]

Result(c, ret) == ResultOut(c, ret, NoOut)

\* mutant: STOPPING is not counted as running
is_running_NoStopping(state) ==
    state \in { XR_SESSION_STATE_SYNCHRONIZED, XR_SESSION_STATE_VISIBLE,
                XR_SESSION_STATE_FOCUSED }

is_running(state) ==
    state \in { XR_SESSION_STATE_SYNCHRONIZED, XR_SESSION_STATE_VISIBLE,
                XR_SESSION_STATE_FOCUSED, XR_SESSION_STATE_STOPPING }

\* mutant: a STOPPING session is told not to render
should_render_NoStopping(state) ==
    state \in { XR_SESSION_STATE_VISIBLE, XR_SESSION_STATE_FOCUSED }

should_render(state) ==
    state \in { XR_SESSION_STATE_VISIBLE, XR_SESSION_STATE_FOCUSED,
                XR_SESSION_STATE_STOPPING }

oxr_session_success_result(s) == XR_SUCCESS

\* mutant: the state is assigned without an event
oxr_session_change_state_NoEvent(c, state) ==
    [c EXCEPT !.sess.state = state]

oxr_session_change_state(c, state) ==
    [Emit(c, Event(state)) EXCEPT !.sess.state = state]

\* mutant: the view configuration type is not compared with the system's
oxr_session_begin_NoViewCheck(s, view_type, sy) ==
    IF is_running(s.state)
    THEN Result(Ctx(s), XR_ERROR_SESSION_RUNNING)
    ELSE
        LET c0 == IF s.compositor # NULL
                  THEN Emit(Ctx(s), Comp("begin_session"))
                  ELSE Ctx(s)
            c1 == oxr_session_change_state(c0, XR_SESSION_STATE_SYNCHRONIZED)
            c2 == oxr_session_change_state(c1, XR_SESSION_STATE_VISIBLE)
            c3 == oxr_session_change_state(c2, XR_SESSION_STATE_FOCUSED)
        IN  Result(c3, oxr_session_success_result(c3.sess))

\* mutant: VISIBLE is skipped on the way up
oxr_session_begin_SkipVisible(s, view_type, sy) ==
    IF is_running(s.state)
    THEN Result(Ctx(s), XR_ERROR_SESSION_RUNNING)
    ELSE IF s.compositor # NULL /\ view_type # sy.view_config_type
    THEN Result(Ctx(s), XR_ERROR_VIEW_CONFIGURATION_TYPE_UNSUPPORTED)
    ELSE
        LET c0 == IF s.compositor # NULL
                  THEN Emit(Ctx(s), Comp("begin_session"))
                  ELSE Ctx(s)
            c1 == oxr_session_change_state(c0, XR_SESSION_STATE_SYNCHRONIZED)
            c3 == oxr_session_change_state(c1, XR_SESSION_STATE_FOCUSED)
        IN  Result(c3, oxr_session_success_result(c3.sess))

oxr_session_begin(s, view_type, sy) ==
    IF is_running(s.state)
    THEN Result(Ctx(s), XR_ERROR_SESSION_RUNNING)
    ELSE IF s.compositor # NULL /\ view_type # sy.view_config_type
    THEN Result(Ctx(s), XR_ERROR_VIEW_CONFIGURATION_TYPE_UNSUPPORTED)
    ELSE
        LET c0 == IF s.compositor # NULL
                  THEN Emit(Ctx(s), Comp("begin_session"))
                  ELSE Ctx(s)
            c1 == oxr_session_change_state(c0, XR_SESSION_STATE_SYNCHRONIZED)
            c2 == oxr_session_change_state(c1, XR_SESSION_STATE_VISIBLE)
            c3 == oxr_session_change_state(c2, XR_SESSION_STATE_FOCUSED)
        IN  Result(c3, oxr_session_success_result(c3.sess))

\* mutant: the compositor is not told that the session ends
oxr_session_end_NoEndSession(s) ==
    IF ~is_running(s.state)
    THEN Result(Ctx(s), XR_ERROR_SESSION_NOT_RUNNING)
    ELSE IF s.state # XR_SESSION_STATE_STOPPING
    THEN Result(Ctx(s), XR_ERROR_SESSION_NOT_STOPPING)
    ELSE
        LET c0 == Ctx(s)
            c1 == IF s.compositor # NULL /\ s.frame_started
                  THEN [Emit(c0, Comp("discard_frame"))
                            EXCEPT !.sess.frame_started = FALSE]
                  ELSE c0
            c3 == oxr_session_change_state(c1, XR_SESSION_STATE_IDLE)
            c4 == IF c3.sess.exiting
                  THEN oxr_session_change_state(c3, XR_SESSION_STATE_EXITING)
                  ELSE oxr_session_change_state(c3, XR_SESSION_STATE_READY)
        IN  Result(c4, oxr_session_success_result(c4.sess))

\* mutant: an open frame is not discarded
oxr_session_end_KeepFrame(s) ==
    IF ~is_running(s.state)
    THEN Result(Ctx(s), XR_ERROR_SESSION_NOT_RUNNING)
    ELSE IF s.state # XR_SESSION_STATE_STOPPING
    THEN Result(Ctx(s), XR_ERROR_SESSION_NOT_STOPPING)
    ELSE
        LET c0 == Ctx(s)
            c2 == IF s.compositor # NULL
                  THEN Emit([c0 EXCEPT !.sess.frame_started = FALSE],
                            Comp("end_session"))
                  ELSE c0
            c3 == oxr_session_change_state(c2, XR_SESSION_STATE_IDLE)
            c4 == IF c3.sess.exiting
                  THEN oxr_session_change_state(c3, XR_SESSION_STATE_EXITING)
                  ELSE oxr_session_change_state(c3, XR_SESSION_STATE_READY)
        IN  Result(c4, oxr_session_success_result(c4.sess))

\* mutant: the open frame is discarded before the STOPPING check
oxr_session_end_DiscardFirst(s) ==
    IF ~is_running(s.state)
    THEN Result(Ctx(s), XR_ERROR_SESSION_NOT_RUNNING)
    ELSE
        LET c0 == Ctx(s)
            c1 == IF s.compositor # NULL /\ s.frame_started
                  THEN [Emit(c0, Comp("discard_frame"))
                            EXCEPT !.sess.frame_started = FALSE]
                  ELSE c0
        IN  IF s.state # XR_SESSION_STATE_STOPPING
            THEN Result(c1, XR_ERROR_SESSION_NOT_STOPPING)
            ELSE
                LET c2 == IF s.compositor # NULL
                          THEN Emit(c1, Comp("end_session"))
                          ELSE c1
                    c3 == oxr_session_change_state(c2, XR_SESSION_STATE_IDLE)
                    c4 == IF c3.sess.exiting
                          THEN oxr_session_change_state(c3, XR_SESSION_STATE_EXITING)
                          ELSE oxr_session_change_state(c3, XR_SESSION_STATE_READY)
                IN  Result(c4, oxr_session_success_result(c4.sess))

\* mutant: the exiting flag is read the wrong way round
oxr_session_end_Swapped(s) ==
    IF ~is_running(s.state)
    THEN Result(Ctx(s), XR_ERROR_SESSION_NOT_RUNNING)
    ELSE IF s.state # XR_SESSION_STATE_STOPPING
    THEN Result(Ctx(s), XR_ERROR_SESSION_NOT_STOPPING)
    ELSE
        LET c0 == Ctx(s)
            c1 == IF s.compositor # NULL /\ s.frame_started
                  THEN [Emit(c0, Comp("discard_frame"))
                            EXCEPT !.sess.frame_started = FALSE]
                  ELSE c0
            c2 == IF s.compositor # NULL
                  THEN Emit(c1, Comp("end_session"))
                  ELSE c1
            c3 == oxr_session_change_state(c2, XR_SESSION_STATE_IDLE)
            c4 == IF ~c3.sess.exiting
                  THEN oxr_session_change_state(c3, XR_SESSION_STATE_EXITING)
                  ELSE oxr_session_change_state(c3, XR_SESSION_STATE_READY)
        IN  Result(c4, oxr_session_success_result(c4.sess))

oxr_session_end(s) ==
    IF ~is_running(s.state)
    THEN Result(Ctx(s), XR_ERROR_SESSION_NOT_RUNNING)
    ELSE IF s.state # XR_SESSION_STATE_STOPPING
    THEN Result(Ctx(s), XR_ERROR_SESSION_NOT_STOPPING)
    ELSE
        LET c0 == Ctx(s)
            c1 == IF s.compositor # NULL /\ s.frame_started
                  THEN [Emit(c0, Comp("discard_frame"))
                            EXCEPT !.sess.frame_started = FALSE]
                  ELSE c0
            c2 == IF s.compositor # NULL
                  THEN Emit(c1, Comp("end_session"))
                  ELSE c1
            c3 == oxr_session_change_state(c2, XR_SESSION_STATE_IDLE)
            c4 == IF c3.sess.exiting
                  THEN oxr_session_change_state(c3, XR_SESSION_STATE_EXITING)
                  ELSE oxr_session_change_state(c3, XR_SESSION_STATE_READY)
        IN  Result(c4, oxr_session_success_result(c4.sess))

\* mutant: the exiting flag is not set
oxr_session_request_exit_NoFlag(s) ==
    IF ~is_running(s.state)
    THEN Result(Ctx(s), XR_ERROR_SESSION_NOT_RUNNING)
    ELSE
        LET c0 == Ctx(s)
            c1 == IF c0.sess.state = XR_SESSION_STATE_FOCUSED
                  THEN oxr_session_change_state(c0, XR_SESSION_STATE_VISIBLE)
                  ELSE c0
            c2 == IF c1.sess.state = XR_SESSION_STATE_VISIBLE
                  THEN oxr_session_change_state(c1, XR_SESSION_STATE_SYNCHRONIZED)
                  ELSE c1
            c3 == oxr_session_change_state(c2, XR_SESSION_STATE_STOPPING)
        IN  Result(c3, oxr_session_success_result(c3.sess))

\* mutant: the walk down ends in SYNCHRONIZED
oxr_session_request_exit_StopsShort(s) ==
    IF ~is_running(s.state)
    THEN Result(Ctx(s), XR_ERROR_SESSION_NOT_RUNNING)
    ELSE
        LET c0 == Ctx(s)
            c1 == IF c0.sess.state = XR_SESSION_STATE_FOCUSED
                  THEN oxr_session_change_state(c0, XR_SESSION_STATE_VISIBLE)
                  ELSE c0
            c2 == IF c1.sess.state = XR_SESSION_STATE_VISIBLE
                  THEN oxr_session_change_state(c1, XR_SESSION_STATE_SYNCHRONIZED)
                  ELSE c1
            c4 == [c2 EXCEPT !.sess.exiting = TRUE]
        IN  Result(c4, oxr_session_success_result(c4.sess))

\* mutant: jumps straight to STOPPING and forgets the exiting flag
oxr_session_request_exit_Jump(s) ==
    IF ~is_running(s.state)
    THEN Result(Ctx(s), XR_ERROR_SESSION_NOT_RUNNING)
    ELSE
        LET c3 == oxr_session_change_state(Ctx(s), XR_SESSION_STATE_STOPPING)
        IN  Result(c3, oxr_session_success_result(c3.sess))

oxr_session_request_exit(s) ==
    IF ~is_running(s.state)
    THEN Result(Ctx(s), XR_ERROR_SESSION_NOT_RUNNING)
    ELSE
        LET c0 == Ctx(s)
            c1 == IF c0.sess.state = XR_SESSION_STATE_FOCUSED
                  THEN oxr_session_change_state(c0, XR_SESSION_STATE_VISIBLE)
                  ELSE c0
            c2 == IF c1.sess.state = XR_SESSION_STATE_VISIBLE
                  THEN oxr_session_change_state(c1, XR_SESSION_STATE_SYNCHRONIZED)
                  ELSE c1
            c3 == oxr_session_change_state(c2, XR_SESSION_STATE_STOPPING)
            c4 == [c3 EXCEPT !.sess.exiting = TRUE]
        IN  Result(c4, oxr_session_success_result(c4.sess))

(***************************************************************************)
(* Session creation.                                                       *)
(***************************************************************************)
\* XrSessionCreateInfo's chain: the graphics binding found in it, if any.
GraphicsBindings == {"opengl_xlib", "vulkan", "egl", "none"}

\* what oxr_session_populate_gl_xlib / _vk / _egl hand back
XR_ERROR_INITIALIZATION_FAILED == "XR_ERROR_INITIALIZATION_FAILED"
PopulateResults == {XR_SUCCESS, XR_ERROR_INITIALIZATION_FAILED}

\* [allocated, sess, ret]: *out_session after the call (allocated = non-NULL)
oxr_session_create_impl(binding, gotten_requirements, MND_headless, populate) ==
    IF binding # "none"
    THEN IF ~gotten_requirements
         THEN [allocated |-> FALSE, sess |-> AllocatedSession,
               ret |-> XR_ERROR_VALIDATION_FAILURE]
         ELSE [allocated |-> TRUE,
               sess |-> [AllocatedSession EXCEPT !.compositor =
                            IF populate = XR_SUCCESS THEN XC ELSE NULL],
               ret |-> populate]
    ELSE IF MND_headless
    THEN [allocated |-> TRUE,
          sess |-> [AllocatedSession EXCEPT !.compositor = NULL],
          ret |-> XR_SUCCESS]
    ELSE [allocated |-> FALSE, sess |-> AllocatedSession,
          ret |-> XR_ERROR_VALIDATION_FAILURE]

\* mutant: the state is set before, and without, the READY event
oxr_session_create_NoReady(binding, gotten_requirements, MND_headless, populate) ==
    LET impl == oxr_session_create_impl(binding, gotten_requirements,
                                        MND_headless, populate)
    IN  IF impl.ret # XR_SUCCESS
        THEN [have |-> FALSE, sess |-> AllocatedSession, ret |-> impl.ret,
              log |-> <<>>]
        ELSE [have |-> TRUE,
              sess |-> [impl.sess EXCEPT !.state = XR_SESSION_STATE_READY],
              ret |-> impl.ret,
              log |-> <<Event(XR_SESSION_STATE_IDLE)>>]

\* [have, sess, ret, log]: have = a session was handed out through out_session
oxr_session_create(binding, gotten_requirements, MND_headless, populate) ==
    LET impl == oxr_session_create_impl(binding, gotten_requirements,
                                        MND_headless, populate)
    IN  IF impl.ret # XR_SUCCESS
        THEN [have |-> FALSE, sess |-> AllocatedSession, ret |-> impl.ret,
              log |-> IF impl.allocated THEN <<[kind |-> "handle_destroy"]>>
                      ELSE <<>>]
        ELSE [have |-> TRUE,
              sess |-> [impl.sess EXCEPT !.state = XR_SESSION_STATE_READY],
              ret |-> impl.ret,
              log |-> <<Event(XR_SESSION_STATE_IDLE),
                        Event(XR_SESSION_STATE_READY)>>]

(***************************************************************************)
(* Frame timing.                                                           *)
(***************************************************************************)
\* (int64_t)predicted_display_time as xrt_comp_wait_frame hands it back, and
\* what time_state_monotonic_to_ts_ns makes of it
NativeTimes == {-1, 0, 1}
ConvertedTimes == {-1, 0, 1}
DisplayPeriod == "period"

\* mutant: the clock is updated before the running check
oxr_session_frame_wait_ClockFirst(s, native, converted) ==
    LET c0 == Emit(Ctx(s), ClockUpdate)
    IN  IF ~is_running(s.state)
        THEN ResultOut(c0, XR_ERROR_SESSION_NOT_RUNNING, NoOut)
        ELSE IF s.compositor = NULL
        THEN ResultOut(c0, oxr_session_success_result(s),
                       [NoOut EXCEPT !.shouldRender = FALSE])
        ELSE
            LET c1 == Emit(c0, Comp("wait_frame"))
                out == [shouldRender |-> should_render(s.state),
                        predictedDisplayPeriod |-> DisplayPeriod,
                        predictedDisplayTime |-> converted]
            IN  IF native <= 0
                THEN ResultOut(c1, XR_ERROR_RUNTIME_FAILURE, NoOut)
                ELSE IF converted <= 0
                THEN ResultOut(c1, XR_ERROR_RUNTIME_FAILURE, out)
                ELSE ResultOut(c1, oxr_session_success_result(s), out)

\* mutant: the headless early-out is missing
oxr_session_frame_wait_NoHeadless(s, native, converted) ==
    IF ~is_running(s.state)
    THEN ResultOut(Ctx(s), XR_ERROR_SESSION_NOT_RUNNING, NoOut)
    ELSE
        LET c1 == Emit(Emit(Ctx(s), ClockUpdate), Comp("wait_frame"))
            out == [shouldRender |-> should_render(s.state),
                    predictedDisplayPeriod |-> DisplayPeriod,
                    predictedDisplayTime |-> converted]
        IN  IF native <= 0
            THEN ResultOut(c1, XR_ERROR_RUNTIME_FAILURE, NoOut)
            ELSE IF converted <= 0
            THEN ResultOut(c1, XR_ERROR_RUNTIME_FAILURE, out)
            ELSE ResultOut(c1, oxr_session_success_result(s), out)

\* [sess, ret, log, out]: out is *frameState as the call leaves it
oxr_session_frame_wait(s, native, converted) ==
    IF ~is_running(s.state)
    THEN ResultOut(Ctx(s), XR_ERROR_SESSION_NOT_RUNNING, NoOut)
    ELSE
        LET c0 == Emit(Ctx(s), ClockUpdate)
        IN  IF s.compositor = NULL
            THEN ResultOut(c0, oxr_session_success_result(s),
                           [NoOut EXCEPT !.shouldRender = FALSE])
            ELSE
                LET c1 == Emit(c0, Comp("wait_frame"))
                    out == [shouldRender |-> should_render(s.state),
                            predictedDisplayPeriod |-> DisplayPeriod,
                            predictedDisplayTime |-> converted]
                IN  IF native <= 0
                    THEN ResultOut(c1, XR_ERROR_RUNTIME_FAILURE, NoOut)
                    ELSE IF converted <= 0
                    THEN ResultOut(c1, XR_ERROR_RUNTIME_FAILURE, out)
                    ELSE ResultOut(c1, oxr_session_success_result(s), out)

\* mutant: the frame already open is not discarded
oxr_session_frame_begin_NoDiscard(s) ==
    IF ~is_running(s.state)
    THEN Result(Ctx(s), XR_ERROR_SESSION_NOT_RUNNING)
    ELSE
        LET c2 == [Ctx(s) EXCEPT !.sess.frame_started = TRUE]
            ret == IF s.frame_started THEN XR_FRAME_DISCARDED
                   ELSE oxr_session_success_result(s)
            c3 == IF s.compositor # NULL
                  THEN Emit(c2, Comp("begin_frame"))
                  ELSE c2
        IN  Result(c3, ret)

\* mutant: frame_started is toggled, so a second begin closes the frame
oxr_session_frame_begin_Toggle(s) ==
    IF ~is_running(s.state)
    THEN Result(Ctx(s), XR_ERROR_SESSION_NOT_RUNNING)
    ELSE
        LET c0 == Ctx(s)
            c1 == IF s.frame_started /\ s.compositor # NULL
                  THEN Emit(c0, Comp("discard_frame"))
                  ELSE c0
            c2 == [c1 EXCEPT !.sess.frame_started = ~s.frame_started]
            ret == IF s.frame_started THEN XR_FRAME_DISCARDED
                   ELSE oxr_session_success_result(s)
            c3 == IF s.compositor # NULL
                  THEN Emit(c2, Comp("begin_frame"))
                  ELSE c2
        IN  Result(c3, ret)

oxr_session_frame_begin(s) ==
    IF ~is_running(s.state)
    THEN Result(Ctx(s), XR_ERROR_SESSION_NOT_RUNNING)
    ELSE
        LET c0 == Ctx(s)
            c1 == IF s.frame_started /\ s.compositor # NULL
                  THEN Emit(c0, Comp("discard_frame"))
                  ELSE c0
            c2 == IF s.frame_started
                  THEN c1
                  ELSE [c1 EXCEPT !.sess.frame_started = TRUE]
            ret == IF s.frame_started THEN XR_FRAME_DISCARDED
                   ELSE oxr_session_success_result(s)
            c3 == IF s.compositor # NULL
                  THEN Emit(c2, Comp("begin_frame"))
                  ELSE c2
        IN  Result(c3, ret)

(***************************************************************************)
(* View location.                                                          *)
(***************************************************************************)
num_views == 2
MaxViewCapacity == 3

\* viewLocateInfo->space: its reference space type and is_reference
Spaces ==
    [type : {"XR_REFERENCE_SPACE_TYPE_LOCAL"}, is_reference : BOOLEAN]

\* an element of views[] the call did not write, and the one it writes for
\* view index i: the located pose and the device's field of view
UnsetView == [written |-> FALSE]
LocatedView(i, space) ==
    [written |-> TRUE,
     pose |-> [locate |-> <<"view_pose", i>>, base |-> space.type],
     fov |-> <<"xdev->hmd->views.fov", i>>]

XR_VIEW_STATE_ORIENTATION_VALID_BIT == "XR_VIEW_STATE_ORIENTATION_VALID_BIT"
XR_VIEW_STATE_POSITION_VALID_BIT == "XR_VIEW_STATE_POSITION_VALID_BIT"

\* *viewState, *viewCountOutput and the caller's views[] buffer before the
\* call writes to them; a written viewStateFlags or viewCountOutput is a
\* one-element sequence
NoViewsOut ==
    [viewStateFlags |-> <<>>, viewCountOutput |-> <<>>,
     views |-> [i \in 1..MaxViewCapacity |-> UnsetView]]

\* mutant: the view count is written before the space is looked at
oxr_session_views_CountFirst(s, space, viewCapacityInput, count_null) ==
    LET out1 == IF count_null THEN NoViewsOut
                ELSE [NoViewsOut EXCEPT !.viewCountOutput = <<num_views>>]
    IN  IF ~space.is_reference
        THEN ResultOut(Ctx(s), oxr_session_success_result(s),
                       [out1 EXCEPT !.viewStateFlags = <<{}>>])
        ELSE IF viewCapacityInput = 0
        THEN ResultOut(Ctx(s), oxr_session_success_result(s), out1)
        ELSE IF viewCapacityInput < num_views
        THEN ResultOut(Ctx(s), XR_ERROR_SIZE_INSUFFICIENT, out1)
        ELSE ResultOut(Ctx(s), oxr_session_success_result(s),
                       [out1 EXCEPT
                           !.views = [i \in 1..MaxViewCapacity |->
                                         IF i <= num_views
                                         THEN LocatedView(i - 1, space)
                                         ELSE UnsetView],
                           !.viewStateFlags =
                               <<{XR_VIEW_STATE_POSITION_VALID_BIT,
                                  XR_VIEW_STATE_ORIENTATION_VALID_BIT}>>])

\* mutant: a capacity equal to the view count is refused and only the
\* position bit is set
oxr_session_views_OffByOne(s, space, viewCapacityInput, count_null) ==
    LET out0 == NoViewsOut
        out1 == IF count_null THEN out0
                ELSE [out0 EXCEPT !.viewCountOutput = <<num_views>>]
    IN  IF ~space.is_reference
        THEN ResultOut(Ctx(s), oxr_session_success_result(s),
                       [out0 EXCEPT !.viewStateFlags = <<{}>>])
        ELSE IF viewCapacityInput = 0
        THEN ResultOut(Ctx(s), oxr_session_success_result(s), out1)
        ELSE IF viewCapacityInput <= num_views
        THEN ResultOut(Ctx(s), XR_ERROR_SIZE_INSUFFICIENT, out1)
        ELSE ResultOut(Ctx(s), oxr_session_success_result(s),
                       [out1 EXCEPT !.viewStateFlags =
                            <<{XR_VIEW_STATE_POSITION_VALID_BIT}>>])

\* [sess, ret, log, out]: out is *viewState, *viewCountOutput and views[]
\* as the call leaves them (count_null: viewCountOutput == NULL)
oxr_session_views(s, space, viewCapacityInput, count_null) ==
    LET out0 == NoViewsOut
        out1 == IF count_null THEN out0
                ELSE [out0 EXCEPT !.viewCountOutput = <<num_views>>]
    IN  IF ~space.is_reference
        THEN ResultOut(Ctx(s), oxr_session_success_result(s),
                       [out0 EXCEPT !.viewStateFlags = <<{}>>])
        ELSE IF viewCapacityInput = 0
        THEN ResultOut(Ctx(s), oxr_session_success_result(s), out1)
        ELSE IF viewCapacityInput < num_views
        THEN ResultOut(Ctx(s), XR_ERROR_SIZE_INSUFFICIENT, out1)
        ELSE
            LET c1 == Emit(Ctx(s), [kind |-> "space", call |-> "ref_relation"])
                c2 == Emit(c1, [kind |-> "xdev", call |-> "get_view_pose",
                                index |-> 0])
                c3 == Emit(c2, [kind |-> "xdev", call |-> "get_view_pose",
                                index |-> 1])
                out2 == [out1 EXCEPT
                            !.views = [i \in 1..MaxViewCapacity |->
                                          IF i <= num_views
                                          THEN LocatedView(i - 1, space)
                                          ELSE UnsetView],
                            !.viewStateFlags =
                                <<{XR_VIEW_STATE_POSITION_VALID_BIT,
                                   XR_VIEW_STATE_ORIENTATION_VALID_BIT}>>]
            IN  ResultOut(c3, oxr_session_success_result(s), out2)

(***************************************************************************)
(* Head pose prediction.  Orientations are rotations about one axis, in    *)
(* steps of which FullTurn make a turn; angular velocities are steps per   *)
(* millisecond; seconds are kept as whole milliseconds.                    *)
(***************************************************************************)
FullTurn == 8
NsPerMs == 1000000

\* time_ns_to_s(ns), in milliseconds
time_ns_to_s(ns) ==
    IF ns >= 0 THEN ns \div NsPerMs ELSE -((-ns) \div NsPerMs)

\* math_quat_integrate_velocity(quat, ang_vel, dt, result): quat turned by
\* ang_vel for dt
math_quat_integrate_velocity(quat, ang_vel, dt) ==
    (quat + ang_vel * dt) % FullTurn

\* what oxr_xdev_get_relation_at hands back: *out_relation_timestamp_ns and
\* *out_relation (valid_vel: XRT_SPACE_RELATION_ANGULAR_VELOCITY_VALID_BIT)
Relations ==
    [ pose : [orientation : {0, 3}, position : {<<"0", "0", "0">>, <<"1", "0", "1">>}],
      angular_velocity : {-1, 0, 2},
      valid_vel : BOOLEAN,
      timestamp : {0, 2 * NsPerMs} ]

AtTimes == {0, 2 * NsPerMs, 3 * NsPerMs}

\* sess->static_prediction_s as oxr_session_create sets it from
\* OXR_DEBUG_PREDICTION_MS
StaticPredictions == {0, 2}

\* mutant: the static prediction is left out of the dynamic interval
oxr_session_get_view_pose_at_NoStatic(s, at_time, relation, static_prediction_s, dynamic_prediction) ==
    LET ns_diff == at_time - relation.timestamp
        interval == IF dynamic_prediction
                    THEN time_ns_to_s(ns_diff)
                    ELSE static_prediction_s
        predicted == math_quat_integrate_velocity(relation.pose.orientation,
                                                  relation.angular_velocity,
                                                  interval)
    IN  ResultOut(Ctx(s), oxr_session_success_result(s),
                  [pose |-> IF relation.valid_vel
                            THEN [relation.pose EXCEPT !.orientation = predicted]
                            ELSE relation.pose])

\* [sess, ret, log, out]: out.pose is *pose as the call leaves it
oxr_session_get_view_pose_at(s, at_time, relation, static_prediction_s, dynamic_prediction) ==
    LET pose == relation.pose
        ns_diff == at_time - relation.timestamp
        interval == IF dynamic_prediction
                    THEN time_ns_to_s(ns_diff) + static_prediction_s
                    ELSE static_prediction_s
        predicted == math_quat_integrate_velocity(pose.orientation,
                                                  relation.angular_velocity,
                                                  interval)
    IN  ResultOut(Ctx(s), oxr_session_success_result(s),
                  [pose |-> IF relation.valid_vel
                            THEN [pose EXCEPT !.orientation = predicted]
                            ELSE pose])

(***************************************************************************)
(* Composition layers.                                                     *)
(***************************************************************************)
MaxLayers == 2
NumImages == 2

\* struct oxr_swapchain behind an XrSwapchain handle; handle = NULL for
\* XR_NULL_HANDLE, whose fields do not exist.
Sc(released_index, num_images) ==
    [handle |-> "sc", released_index |-> released_index, num_images |-> num_images]
NullSc == [handle |-> NULL, released_index |-> 0, num_images |-> 0]

\* What reading through a NULL swapchain pointer does: the process dies, or
\* the reads yield whatever lies there.
NoUB == [crash |-> FALSE, released_index |-> 0, num_images |-> 0]
UBOutcomes ==
    { [crash |-> TRUE, released_index |-> 0, num_images |-> 0] } \cup
    { [crash |-> FALSE, released_index |-> r, num_images |-> n] :
        r \in {-1, 0}, n \in {0, 1} }

\* sc->released_index, sc->swapchain->num_images as the code reads them
Deref(sc, ub) ==
    IF sc.handle = NULL
    THEN [handle |-> "garbage", released_index |-> ub.released_index,
          num_images |-> ub.num_images]
    ELSE sc

\* poses: orientation <<x, y, z, w>> over the integers, position over
\* "0", "1" and the non-finite "nan", "inf"
Pose(orientation, position) == [orientation |-> orientation, position |-> position]
IdentityPose == Pose(<<0, 0, 0, 1>>, <<"0", "0", "0">>)

math_quat_validate(q) ==
    q[1] * q[1] + q[2] * q[2] + q[3] * q[3] + q[4] * q[4] = 1

math_vec3_validate(v) ==
    \A i \in 1..3 : v[i] \notin {"nan", "inf"}

\* math_pose_transform(inv_offset, pose, &out), inv_offset being the inverse
\* of the head's tracking-origin offset
math_pose_transform(transform, pose) == [transform |-> transform, of |-> pose]
inv_offset == "inverse(head.tracking_origin.offset)"

Quad(space, pose, swapchain, offset) ==
    [type |-> "QUAD", space |-> space, pose |-> pose,
     swapchain |-> swapchain, offset |-> offset]

View(pose, swapchain) == [pose |-> pose, swapchain |-> swapchain]

Projection(space, views) ==
    [type |-> "PROJECTION", space |-> space, viewCount |-> Len(views),
     views |-> views]

\* frameEndInfo->layers[i] == NULL, and a layer of a type not handled
NullLayer == [type |-> NULL]
OtherLayer == [type |-> "OTHER"]

verify_space(space) ==
    IF space = NULL THEN XR_ERROR_VALIDATION_FAILURE ELSE XR_SUCCESS

\* mutant: a released index past the images is reported as an invalid layer
verify_quad_layer_BoundsAsLayer(quad) ==
    IF quad.swapchain.handle = NULL THEN XR_ERROR_LAYER_INVALID
    ELSE IF verify_space(quad.space) # XR_SUCCESS THEN verify_space(quad.space)
    ELSE IF ~math_quat_validate(quad.pose.orientation) THEN XR_ERROR_POSE_INVALID
    ELSE IF ~math_vec3_validate(quad.pose.position) THEN XR_ERROR_POSE_INVALID
    ELSE IF quad.swapchain.released_index = -1 THEN XR_ERROR_LAYER_INVALID
    ELSE IF quad.swapchain.released_index >= quad.swapchain.num_images
    THEN XR_ERROR_LAYER_INVALID
    ELSE IF quad.offset[1] < 0 \/ quad.offset[2] < 0
    THEN XR_ERROR_SWAPCHAIN_RECT_INVALID
    ELSE IF quad.offset[1] >= 1 \/ quad.offset[2] >= 1
    THEN XR_ERROR_SWAPCHAIN_RECT_INVALID
    ELSE XR_SUCCESS

\* mutant: only the x component of the offset is checked
verify_quad_layer_OffsetX(quad) ==
    IF quad.swapchain.handle = NULL THEN XR_ERROR_LAYER_INVALID
    ELSE IF verify_space(quad.space) # XR_SUCCESS THEN verify_space(quad.space)
    ELSE IF ~math_quat_validate(quad.pose.orientation) THEN XR_ERROR_POSE_INVALID
    ELSE IF ~math_vec3_validate(quad.pose.position) THEN XR_ERROR_POSE_INVALID
    ELSE IF quad.swapchain.released_index = -1 THEN XR_ERROR_LAYER_INVALID
    ELSE IF quad.swapchain.released_index >= quad.swapchain.num_images
    THEN XR_ERROR_RUNTIME_FAILURE
    ELSE IF quad.offset[1] < 0 THEN XR_ERROR_SWAPCHAIN_RECT_INVALID
    ELSE IF quad.offset[1] >= 1 THEN XR_ERROR_SWAPCHAIN_RECT_INVALID
    ELSE XR_SUCCESS

\* mutant: the orientation is not validated
verify_quad_layer_NoQuat(quad) ==
    IF quad.swapchain.handle = NULL THEN XR_ERROR_LAYER_INVALID
    ELSE IF verify_space(quad.space) # XR_SUCCESS THEN verify_space(quad.space)
    ELSE IF ~math_vec3_validate(quad.pose.position) THEN XR_ERROR_POSE_INVALID
    ELSE IF quad.swapchain.released_index = -1 THEN XR_ERROR_LAYER_INVALID
    ELSE IF quad.swapchain.released_index >= quad.swapchain.num_images
    THEN XR_ERROR_RUNTIME_FAILURE
    ELSE IF quad.offset[1] < 0 \/ quad.offset[2] < 0
    THEN XR_ERROR_SWAPCHAIN_RECT_INVALID
    ELSE IF quad.offset[1] >= 1 \/ quad.offset[2] >= 1
    THEN XR_ERROR_SWAPCHAIN_RECT_INVALID
    ELSE XR_SUCCESS

verify_quad_layer(quad) ==
    IF quad.swapchain.handle = NULL THEN XR_ERROR_LAYER_INVALID
    ELSE IF verify_space(quad.space) # XR_SUCCESS THEN verify_space(quad.space)
    ELSE IF ~math_quat_validate(quad.pose.orientation) THEN XR_ERROR_POSE_INVALID
    ELSE IF ~math_vec3_validate(quad.pose.position) THEN XR_ERROR_POSE_INVALID
    ELSE IF quad.swapchain.released_index = -1 THEN XR_ERROR_LAYER_INVALID
    ELSE IF quad.swapchain.released_index >= quad.swapchain.num_images
    THEN XR_ERROR_RUNTIME_FAILURE
    ELSE IF quad.offset[1] < 0 \/ quad.offset[2] < 0
    THEN XR_ERROR_SWAPCHAIN_RECT_INVALID
    ELSE IF quad.offset[1] >= 1 \/ quad.offset[2] >= 1
    THEN XR_ERROR_SWAPCHAIN_RECT_INVALID
    ELSE XR_SUCCESS

\* mutant: the released index is not checked against num_images
verify_projection_view_NoBounds(view, ub) ==
    IF ~math_quat_validate(view.pose.orientation) THEN XR_ERROR_POSE_INVALID
    ELSE IF ~math_vec3_validate(view.pose.position) THEN XR_ERROR_POSE_INVALID
    ELSE IF view.swapchain.handle = NULL /\ ub.crash THEN CRASHED
    ELSE LET sc == Deref(view.swapchain, ub)
         IN  IF sc.released_index = -1 THEN XR_ERROR_LAYER_INVALID
             ELSE XR_SUCCESS

\* one turn of the loop over proj->views
verify_projection_view(view, ub) ==
    IF ~math_quat_validate(view.pose.orientation) THEN XR_ERROR_POSE_INVALID
    ELSE IF ~math_vec3_validate(view.pose.position) THEN XR_ERROR_POSE_INVALID
    ELSE IF view.swapchain.handle = NULL /\ ub.crash THEN CRASHED
    ELSE LET sc == Deref(view.swapchain, ub)
         IN  IF sc.released_index = -1 THEN XR_ERROR_LAYER_INVALID
             ELSE IF sc.released_index >= sc.num_images
             THEN XR_ERROR_RUNTIME_FAILURE
             ELSE XR_SUCCESS

\* mutant: only too few views are refused
verify_projection_layer_AtLeastTwo(proj, ub) ==
    IF verify_space(proj.space) # XR_SUCCESS THEN verify_space(proj.space)
    ELSE IF proj.viewCount < 2 THEN XR_ERROR_VALIDATION_FAILURE
    ELSE IF verify_projection_view(proj.views[1], ub) # XR_SUCCESS
    THEN verify_projection_view(proj.views[1], ub)
    ELSE verify_projection_view(proj.views[2], ub)

verify_projection_layer(proj, ub) ==
    IF verify_space(proj.space) # XR_SUCCESS THEN verify_space(proj.space)
    ELSE IF proj.viewCount # 2 THEN XR_ERROR_VALIDATION_FAILURE
    ELSE IF verify_projection_view(proj.views[1], ub) # XR_SUCCESS
    THEN verify_projection_view(proj.views[1], ub)
    ELSE verify_projection_view(proj.views[2], ub)

\* one turn of the verifying loop of oxr_session_frame_end
verify_layer(layer, ub) ==
    IF layer.type = NULL THEN XR_ERROR_LAYER_INVALID
    ELSE IF layer.type = "PROJECTION" THEN verify_projection_layer(layer, ub)
    ELSE IF layer.type = "QUAD" THEN verify_quad_layer(layer)
    ELSE XR_ERROR_LAYER_INVALID

\* the verifying loop: the result of the first layer that does not verify
RECURSIVE verify_layers(_, _)
verify_layers(layers, ub) ==
    IF layers = <<>> THEN XR_SUCCESS
    ELSE IF verify_layer(Head(layers), ub) # XR_SUCCESS
    THEN verify_layer(Head(layers), ub)
    ELSE verify_layers(Tail(layers), ub)

\* xrt_comp_layer_quad(xc, ..., sc->swapchain, sc->released_index, ...)
submit_quad_layer(c, quad, ub) ==
    Emit(c, [kind |-> "xc", call |-> "layer_quad",
             chains |-> <<Deref(quad.swapchain, ub)>>,
             poses |-> <<math_pose_transform(inv_offset, quad.pose)>>,
             offset |-> quad.offset])

\* xrt_comp_layer_stereo_projection(xc, ..., scs[0]..., scs[1]..., ...)
submit_projection_layer(c, proj, ub) ==
    Emit(c, [kind |-> "xc", call |-> "layer_stereo_projection",
             chains |-> <<Deref(proj.views[1].swapchain, ub),
                          Deref(proj.views[2].swapchain, ub)>>,
             poses |-> <<math_pose_transform(inv_offset, proj.views[1].pose),
                         math_pose_transform(inv_offset, proj.views[2].pose)>>])

submit_layer(c, layer, ub) ==
    IF layer.type = "PROJECTION" THEN submit_projection_layer(c, layer, ub)
    ELSE submit_quad_layer(c, layer, ub)

\* the submitting loop of oxr_session_frame_end
RECURSIVE submit_layers(_, _, _)
submit_layers(c, layers, ub) ==
    IF layers = <<>> THEN c
    ELSE submit_layers(submit_layer(c, Head(layers), ub), Tail(layers), ub)

(***************************************************************************)
(* Frame end.                                                              *)
(***************************************************************************)
XRT_BLEND_MODE_NONE == "0"

\* mutant: an unknown blend mode is taken for opaque
oxr_blend_mode_to_xrt_DefaultOpaque(blend_mode) ==
    CASE blend_mode = "XR_ENVIRONMENT_BLEND_MODE_ADDITIVE" -> "XRT_BLEND_MODE_ADDITIVE"
      [] blend_mode = "XR_ENVIRONMENT_BLEND_MODE_ALPHA_BLEND" -> "XRT_BLEND_MODE_ALPHA_BLEND"
      [] OTHER -> "XRT_BLEND_MODE_OPAQUE"

oxr_blend_mode_to_xrt(blend_mode) ==
    CASE blend_mode = "XR_ENVIRONMENT_BLEND_MODE_OPAQUE" -> "XRT_BLEND_MODE_OPAQUE"
      [] blend_mode = "XR_ENVIRONMENT_BLEND_MODE_ADDITIVE" -> "XRT_BLEND_MODE_ADDITIVE"
      [] blend_mode = "XR_ENVIRONMENT_BLEND_MODE_ALPHA_BLEND" -> "XRT_BLEND_MODE_ALPHA_BLEND"
      [] OTHER -> XRT_BLEND_MODE_NONE

\* mutant: each layer is submitted as soon as it has verified
RECURSIVE verify_and_submit_Interleaved(_, _, _, _)
verify_and_submit_Interleaved(c, layers, blend_mode, ub) ==
    IF layers = <<>>
    THEN Result([Emit(c, Comp("layer_commit")) EXCEPT !.sess.frame_started = FALSE],
                oxr_session_success_result(c.sess))
    ELSE IF verify_layer(Head(layers), ub) # XR_SUCCESS
    THEN Result(c, verify_layer(Head(layers), ub))
    ELSE verify_and_submit_Interleaved(submit_layer(c, Head(layers), ub),
                                       Tail(layers), blend_mode, ub)

\* mutant: the layers are submitted last to first
RECURSIVE submit_layers_Reversed(_, _, _)
submit_layers_Reversed(c, layers, ub) ==
    IF layers = <<>> THEN c
    ELSE submit_layer(submit_layers_Reversed(c, Tail(layers), ub), Head(layers), ub)

\* mutant of verify_and_submit: every layer is verified and the result of
\* the last one that does not verify is handed back
RECURSIVE verify_layers_Last(_, _)
verify_layers_Last(layers, ub) ==
    IF layers = <<>> THEN XR_SUCCESS
    ELSE IF verify_layers_Last(Tail(layers), ub) # XR_SUCCESS
    THEN verify_layers_Last(Tail(layers), ub)
    ELSE verify_layer(Head(layers), ub)

verify_and_submit_LastError(c, layers, blend_mode, ub) ==
    IF verify_layers_Last(layers, ub) # XR_SUCCESS
    THEN Result(c, verify_layers_Last(layers, ub))
    ELSE
        LET c1 == Emit(c, [kind |-> "xc", call |-> "layer_begin",
                           blend_mode |-> blend_mode])
            c2 == submit_layers(c1, layers, ub)
            c3 == Emit(c2, Comp("layer_commit"))
            c4 == [c3 EXCEPT !.sess.frame_started = FALSE]
        IN  Result(c4, oxr_session_success_result(c4.sess))

\* mutant of verify_and_submit: reversed submission order
verify_and_submit_Reversed(c, layers, blend_mode, ub) ==
    IF verify_layers(layers, ub) # XR_SUCCESS
    THEN Result(c, verify_layers(layers, ub))
    ELSE
        LET c1 == Emit(c, [kind |-> "xc", call |-> "layer_begin",
                           blend_mode |-> blend_mode])
            c2 == submit_layers_Reversed(c1, layers, ub)
            c3 == Emit(c2, Comp("layer_commit"))
            c4 == [c3 EXCEPT !.sess.frame_started = FALSE]
        IN  Result(c4, oxr_session_success_result(c4.sess))

\* the layer part of oxr_session_frame_end: verify every layer, then
\* layer_begin, one submit per layer, layer_commit
verify_and_submit(c, layers, blend_mode, ub) ==
    IF verify_layers(layers, ub) # XR_SUCCESS
    THEN Result(c, verify_layers(layers, ub))
    ELSE
        LET c1 == Emit(c, [kind |-> "xc", call |-> "layer_begin",
                           blend_mode |-> blend_mode])
            c2 == submit_layers(c1, layers, ub)
            c3 == Emit(c2, Comp("layer_commit"))
            c4 == [c3 EXCEPT !.sess.frame_started = FALSE]
        IN  Result(c4, oxr_session_success_result(c4.sess))

\* mutant: the headless early-out comes after the blend mode checks
oxr_session_frame_end_HeadlessLate(s, info, sy, ub) ==
    IF ~is_running(s.state)
    THEN Result(Ctx(s), XR_ERROR_SESSION_NOT_RUNNING)
    ELSE IF ~s.frame_started
    THEN Result(Ctx(s), XR_ERROR_CALL_ORDER_INVALID)
    ELSE IF info.displayTime <= 0
    THEN Result(Ctx(s), XR_ERROR_TIME_INVALID)
    ELSE
        LET blend_mode == oxr_blend_mode_to_xrt(info.environmentBlendMode)
        IN  IF blend_mode = XRT_BLEND_MODE_NONE
            THEN Result(Ctx(s), XR_ERROR_VALIDATION_FAILURE)
            ELSE IF blend_mode \notin sy.blend_mode
            THEN Result(Ctx(s), XR_ERROR_ENVIRONMENT_BLEND_MODE_UNSUPPORTED)
            ELSE IF s.compositor = NULL
            THEN Result([Ctx(s) EXCEPT !.sess.frame_started = FALSE],
                        oxr_session_success_result(s))
            ELSE IF info.layerCount = 0
            THEN Result([Emit(Ctx(s), Comp("discard_frame"))
                            EXCEPT !.sess.frame_started = FALSE],
                        oxr_session_success_result(s))
            ELSE IF info.layers_null
            THEN Result(Ctx(s), XR_ERROR_LAYER_INVALID)
            ELSE verify_and_submit(Ctx(s), info.layers, blend_mode, ub)

\* mutant: the display time is checked after the blend mode
oxr_session_frame_end_TimeLate(s, info, sy, ub) ==
    IF ~is_running(s.state)
    THEN Result(Ctx(s), XR_ERROR_SESSION_NOT_RUNNING)
    ELSE IF ~s.frame_started
    THEN Result(Ctx(s), XR_ERROR_CALL_ORDER_INVALID)
    ELSE IF s.compositor = NULL
    THEN Result([Ctx(s) EXCEPT !.sess.frame_started = FALSE],
                oxr_session_success_result(s))
    ELSE
        LET blend_mode == oxr_blend_mode_to_xrt(info.environmentBlendMode)
        IN  IF blend_mode = XRT_BLEND_MODE_NONE
            THEN Result(Ctx(s), XR_ERROR_VALIDATION_FAILURE)
            ELSE IF blend_mode \notin sy.blend_mode
            THEN Result(Ctx(s), XR_ERROR_ENVIRONMENT_BLEND_MODE_UNSUPPORTED)
            ELSE IF info.displayTime <= 0
            THEN Result(Ctx(s), XR_ERROR_TIME_INVALID)
            ELSE IF info.layerCount = 0
            THEN Result([Emit(Ctx(s), Comp("discard_frame"))
                            EXCEPT !.sess.frame_started = FALSE],
                        oxr_session_success_result(s))
            ELSE IF info.layers_null
            THEN Result(Ctx(s), XR_ERROR_LAYER_INVALID)
            ELSE verify_and_submit(Ctx(s), info.layers, blend_mode, ub)

\* mutant: a frame without layers is committed, not discarded
oxr_session_frame_end_CommitEmpty(s, info, sy, ub) ==
    IF ~is_running(s.state)
    THEN Result(Ctx(s), XR_ERROR_SESSION_NOT_RUNNING)
    ELSE IF ~s.frame_started
    THEN Result(Ctx(s), XR_ERROR_CALL_ORDER_INVALID)
    ELSE IF info.displayTime <= 0
    THEN Result(Ctx(s), XR_ERROR_TIME_INVALID)
    ELSE IF s.compositor = NULL
    THEN Result([Ctx(s) EXCEPT !.sess.frame_started = FALSE],
                oxr_session_success_result(s))
    ELSE
        LET blend_mode == oxr_blend_mode_to_xrt(info.environmentBlendMode)
        IN  IF blend_mode = XRT_BLEND_MODE_NONE
            THEN Result(Ctx(s), XR_ERROR_VALIDATION_FAILURE)
            ELSE IF blend_mode \notin sy.blend_mode
            THEN Result(Ctx(s), XR_ERROR_ENVIRONMENT_BLEND_MODE_UNSUPPORTED)
            ELSE IF info.layers_null /\ info.layerCount > 0
            THEN Result(Ctx(s), XR_ERROR_LAYER_INVALID)
            ELSE verify_and_submit(Ctx(s), info.layers, blend_mode, ub)

\* info = *frameEndInfo: displayTime, environmentBlendMode, layerCount,
\* layers (layers_null: the layers pointer itself is NULL)
oxr_session_frame_end(s, info, sy, ub) ==
    IF ~is_running(s.state)
    THEN Result(Ctx(s), XR_ERROR_SESSION_NOT_RUNNING)
    ELSE IF ~s.frame_started
    THEN Result(Ctx(s), XR_ERROR_CALL_ORDER_INVALID)
    ELSE IF info.displayTime <= 0
    THEN Result(Ctx(s), XR_ERROR_TIME_INVALID)
    ELSE IF s.compositor = NULL
    THEN Result([Ctx(s) EXCEPT !.sess.frame_started = FALSE],
                oxr_session_success_result(s))
    ELSE
        LET blend_mode == oxr_blend_mode_to_xrt(info.environmentBlendMode)
        IN  IF blend_mode = XRT_BLEND_MODE_NONE
            THEN Result(Ctx(s), XR_ERROR_VALIDATION_FAILURE)
            ELSE IF blend_mode \notin sy.blend_mode
            THEN Result(Ctx(s), XR_ERROR_ENVIRONMENT_BLEND_MODE_UNSUPPORTED)
            ELSE IF info.layerCount = 0
            THEN Result([Emit(Ctx(s), Comp("discard_frame"))
                            EXCEPT !.sess.frame_started = FALSE],
                        oxr_session_success_result(s))
            ELSE IF info.layers_null
            THEN Result(Ctx(s), XR_ERROR_LAYER_INVALID)
            ELSE verify_and_submit(Ctx(s), info.layers, blend_mode, ub)

(***************************************************************************)
(* The calls an application makes.                                         *)
(***************************************************************************)
GoodSc == Sc(0, NumImages)
UnreleasedSc == Sc(-1, NumImages)
OutOfBoundsSc == Sc(NumImages, NumImages)
NonUnitQuat == Pose(<<0, 0, 0, 2>>, <<"0", "0", "0">>)
NanPos == Pose(<<0, 1, 0, 0>>, <<"0", "nan", "1">>)
GoodView == View(IdentityPose, GoodSc)

QuadLayers ==
    { Quad("spc", IdentityPose, GoodSc, <<0, 0>>),
      Quad("spc", IdentityPose, NullSc, <<0, 0>>),
      Quad(NULL, IdentityPose, GoodSc, <<0, 0>>),
      Quad("spc", NonUnitQuat, GoodSc, <<0, 0>>),
      Quad("spc", NanPos, GoodSc, <<0, 0>>),
      Quad("spc", IdentityPose, UnreleasedSc, <<0, 0>>),
      Quad("spc", IdentityPose, OutOfBoundsSc, <<0, 0>>),
      Quad("spc", IdentityPose, GoodSc, <<-1, 0>>),
      Quad("spc", IdentityPose, GoodSc, <<0, -1>>),
      Quad("spc", IdentityPose, GoodSc, <<1, 0>>),
      Quad("spc", IdentityPose, GoodSc, <<0, 1>>),
      Quad(NULL, NonUnitQuat, NullSc, <<0, 0>>),
      Quad("spc", NonUnitQuat, UnreleasedSc, <<1, -1>>) }

ProjectionLayers ==
    { Projection("spc", <<GoodView, GoodView>>),
      Projection(NULL, <<GoodView, GoodView>>),
      Projection("spc", <<GoodView>>),
      Projection("spc", <<GoodView, GoodView, GoodView>>),
      Projection(NULL, <<GoodView, GoodView, GoodView>>),
      Projection("spc", <<View(NonUnitQuat, GoodSc), GoodView>>),
      Projection("spc", <<GoodView, View(NonUnitQuat, GoodSc)>>),
      Projection("spc", <<GoodView, View(NanPos, GoodSc)>>),
      Projection("spc", <<View(IdentityPose, UnreleasedSc), GoodView>>),
      Projection("spc", <<GoodView, View(IdentityPose, UnreleasedSc)>>),
      Projection("spc", <<GoodView, View(IdentityPose, OutOfBoundsSc)>>),
      Projection("spc", <<View(IdentityPose, NullSc), GoodView>>),
      Projection("spc", <<GoodView, View(IdentityPose, NullSc)>>),
      Projection("spc", <<View(IdentityPose, UnreleasedSc),
                          View(NonUnitQuat, GoodSc)>>) }

Layers == QuadLayers \cup ProjectionLayers \cup {NullLayer, OtherLayer}

LayerLists(lo, hi) == UNION { [1..n -> Layers] : n \in lo..hi }

BlendModes ==
    { "XR_ENVIRONMENT_BLEND_MODE_OPAQUE", "XR_ENVIRONMENT_BLEND_MODE_ADDITIVE",
      "XR_ENVIRONMENT_BLEND_MODE_ALPHA_BLEND", "XR_ENVIRONMENT_BLEND_MODE_MAX_ENUM" }

FrameEndInfo(displayTime, blend, layers) ==
    [displayTime |-> displayTime, environmentBlendMode |-> blend,
     layerCount |-> Len(layers), layers_null |-> FALSE, layers |-> layers]

\* The frames an application submits: every display time and blend mode with
\* up to one layer, a NULL layers pointer, the longer lists at a valid
\* display time with a supported blend mode, and the longer lists at display
\* time 0 with an unknown blend mode (two layers).
FrameEndInfos ==
    { FrameEndInfo(d, b, l) :
        d \in {-1, 0, 1}, b \in BlendModes, l \in LayerLists(0, 1) }
    \cup
    { [FrameEndInfo(1, b, <<>>) EXCEPT !.layerCount = n, !.layers_null = TRUE] :
        b \in BlendModes, n \in {0, 1} }
    \cup
    { FrameEndInfo(1, b, l) :
        b \in {"XR_ENVIRONMENT_BLEND_MODE_OPAQUE",
               "XR_ENVIRONMENT_BLEND_MODE_ALPHA_BLEND"},
        l \in LayerLists(2, MaxLayers) }
    \cup
    { FrameEndInfo(0, "XR_ENVIRONMENT_BLEND_MODE_MAX_ENUM", l) :
        l \in LayerLists(2, 2) }

\* does verifying or submitting these layers read through a NULL swapchain
HasNullView(info) ==
    \E i \in 1..Len(info.layers) :
        /\ info.layers[i].type = "PROJECTION"
        /\ \E v \in 1..Len(info.layers[i].views) :
              info.layers[i].views[v].swapchain.handle = NULL

UBChoices(info) == IF HasNullView(info) THEN UBOutcomes ELSE {NoUB}

\* the compositor before xrt_comp_begin_session
NoXc == [session |-> FALSE, frame |-> FALSE]

\* the compositor after one more call on it
xrt_comp(x, call) ==
    IF call = "begin_session" THEN [x EXCEPT !.session = TRUE]
    ELSE IF call = "end_session" THEN [x EXCEPT !.session = FALSE]
    ELSE IF call = "begin_frame" THEN [x EXCEPT !.frame = TRUE]
    ELSE IF call \in {"discard_frame", "layer_commit"} THEN [x EXCEPT !.frame = FALSE]
    ELSE x

\* the compositor after the calls of a log
RECURSIVE XcAfter(_, _)
XcAfter(x, log) ==
    IF log = <<>> THEN x
    ELSE IF Head(log).kind = "xc"
    THEN XcAfter(xrt_comp(x, Head(log).call), Tail(log))
    ELSE XcAfter(x, Tail(log))

\* the newest event state after the events of a log, e if it has none
EventAfter(e, log) ==
    IF EventStates(log) = <<>> THEN e
    ELSE EventStates(log)[Len(EventStates(log))]

NoCall ==
    [op |-> "none", args |-> <<>>, ret |-> "none", log |-> <<>>,
     out |-> NoOut, pre |-> AllocatedSession, had |-> FALSE, xc |-> NoXc]

\* the record kept of a call that returned r
Returned(op, args, r) ==
    [op |-> op, args |-> args, ret |-> r.ret, log |-> r.log, out |-> r.out,
     pre |-> sess, had |-> have_session, xc |-> xc_state]

Systems ==
    { [view_config_type |-> "PRIMARY_STEREO",
       blend_mode |-> {"XRT_BLEND_MODE_OPAQUE", "XRT_BLEND_MODE_ALPHA_BLEND"}] }

Init ==
    /\ sys \in Systems
    /\ have_session = FALSE
    /\ sess = AllocatedSession
    /\ last = NoCall
    /\ alive = TRUE
    /\ xc_state = NoXc
    /\ last_event = "none"

\* the application is between two calls
Idle == alive /\ last.op = "none"

Create ==
    /\ Idle /\ ~have_session
    /\ \E binding \in GraphicsBindings, gotten \in BOOLEAN,
          headless \in BOOLEAN, populate \in PopulateResults :
          LET r == oxr_session_create(binding, gotten, headless, populate)
          IN  /\ have_session' = r.have
              /\ sess' = r.sess
              /\ last' = Returned("create",
                                  [binding |-> binding,
                                   gotten_requirements |-> gotten,
                                   MND_headless |-> headless,
                                   populate |-> populate],
                                  r @@ [out |-> NoOut])
              /\ xc_state' = XcAfter(xc_state, r.log)
              /\ last_event' = EventAfter(last_event, r.log)
    /\ UNCHANGED <<sys, alive>>

\* a call on the session that returns r
Call(op, args, r) ==
    /\ sess' = r.sess
    /\ last' = Returned(op, args, r)
    /\ alive' = (r.ret # CRASHED)
    /\ xc_state' = XcAfter(xc_state, r.log)
    /\ last_event' = EventAfter(last_event, r.log)
    /\ UNCHANGED <<sys, have_session>>

Begin ==
    /\ Idle /\ have_session
    /\ \E view_type \in ViewConfigTypes :
          Call("begin", [primaryViewConfigurationType |-> view_type],
               oxr_session_begin(sess, view_type, sys))

End ==
    /\ Idle /\ have_session
    /\ Call("end", <<>>, oxr_session_end(sess))

RequestExit ==
    /\ Idle /\ have_session
    /\ Call("request_exit", <<>>, oxr_session_request_exit(sess))

FrameWait ==
    /\ Idle /\ have_session
    /\ \E native \in NativeTimes, converted \in ConvertedTimes :
          Call("frame_wait", [native |-> native, converted |-> converted],
               oxr_session_frame_wait(sess, native, converted))

FrameBegin ==
    /\ Idle /\ have_session
    /\ Call("frame_begin", <<>>, oxr_session_frame_begin(sess))

FrameEnd ==
    /\ Idle /\ have_session
    /\ \E info \in FrameEndInfos :
          \E ub \in UBChoices(info) :
              Call("frame_end", info, oxr_session_frame_end(sess, info, sys, ub))

LocateViews ==
    /\ Idle /\ have_session
    /\ \E space \in Spaces, capacity \in 0..MaxViewCapacity, count_null \in BOOLEAN :
          Call("locate_views",
               [space |-> space, viewCapacityInput |-> capacity,
                count_null |-> count_null],
               oxr_session_views(sess, space, capacity, count_null))

GetViewPoseAt ==
    /\ Idle /\ have_session
    /\ \E at_time \in AtTimes, relation \in Relations,
          static_prediction_s \in StaticPredictions, dynamic_prediction \in BOOLEAN :
          Call("get_view_pose_at",
               [at_time |-> at_time, relation |-> relation,
                static_prediction_s |-> static_prediction_s,
                dynamic_prediction |-> dynamic_prediction],
               oxr_session_get_view_pose_at(sess, at_time, relation,
                                            static_prediction_s, dynamic_prediction))

\* The caller serializes its calls: it takes the result of one call before it
\* makes the next.
Return ==
    /\ alive /\ last.op # "none"
    /\ last' = NoCall
    /\ UNCHANGED <<sys, have_session, sess, alive, xc_state, last_event>>

Next ==
    \/ Create
    \/ Begin
    \/ End
    \/ RequestExit
    \/ FrameWait
    \/ FrameBegin
    \/ FrameEnd
    \/ LocateViews
    \/ GetViewPoseAt
    \/ Return

Spec == Init /\ [][Next]_vars

(***************************************************************************)
(* Properties.                                                             *)
(***************************************************************************)
\* every value a struct oxr_session can be handed to an entry point with
AnySession ==
    [ state : SessionStates, frame_started : BOOLEAN, exiting : BOOLEAN,
      compositor : {NULL, XC} ]

\* the states in which a session is running
InRunning(state) ==
    state \in { XR_SESSION_STATE_SYNCHRONIZED, XR_SESSION_STATE_VISIBLE,
                XR_SESSION_STATE_FOCUSED, XR_SESSION_STATE_STOPPING }

\* result codes that are errors (XR_FRAME_DISCARDED is a success code)
IsError(ret) == ret \notin {XR_SUCCESS, XR_FRAME_DISCARDED, CRASHED, "none"}

LayerCalls == {"layer_begin", "layer_quad", "layer_stereo_projection", "layer_commit"}

\* the compositor calls of a log that belong to layer submission
LayerCallsOf(log) ==
    { i \in 1..Len(log) : log[i].kind = "xc" /\ log[i].call \in LayerCalls }

----------------------------------------------------------------------------
\* C1 as stated: begin returns XR_ERROR_SESSION_RUNNING iff the session was
\* running, and in every other case leaves the session in FOCUSED.
C1_Original ==
    last.op = "begin" =>
        /\ (last.ret = XR_ERROR_SESSION_RUNNING <=> InRunning(last.pre.state))
        /\ (~InRunning(last.pre.state) => sess.state = XR_SESSION_STATE_FOCUSED)

BeginContract(pre, view_type, ret, post) ==
    /\ (ret = XR_ERROR_SESSION_RUNNING <=> InRunning(pre.state))
    /\ (ret = XR_ERROR_VIEW_CONFIGURATION_TYPE_UNSUPPORTED <=>
            /\ ~InRunning(pre.state)
            /\ pre.compositor # NULL
            /\ view_type # sys.view_config_type)
    /\ (ret = XR_ERROR_VIEW_CONFIGURATION_TYPE_UNSUPPORTED => post = pre)
    /\ (ret \notin {XR_ERROR_SESSION_RUNNING,
                    XR_ERROR_VIEW_CONFIGURATION_TYPE_UNSUPPORTED} =>
            ret = XR_SUCCESS /\ post.state = XR_SESSION_STATE_FOCUSED)

\* C1 (amended): begin returns XR_ERROR_SESSION_RUNNING iff the session was
\* running; a begin on a session that is not running and has a compositor
\* fails with XR_ERROR_VIEW_CONFIGURATION_TYPE_UNSUPPORTED when the view
\* configuration type is not the system's, leaving the session as it was; in
\* every other case begin succeeds and leaves the session in FOCUSED.  Checked
\* of every call made and of oxr_session_begin on every session value.
C1_BeginRunningOrFocused ==
    last.op = "begin" =>
        /\ BeginContract(last.pre, last.args.primaryViewConfigurationType,
                         last.ret, sess)
        /\ \A s \in AnySession, vt \in ViewConfigTypes :
              LET r == oxr_session_begin(s, vt, sys)
              IN  BeginContract(s, vt, r.ret, r.sess)

C1_Witness ==
    /\ last.op = "begin"
    /\ last.pre.compositor = XC
    /\ last.ret = XR_ERROR_VIEW_CONFIGURATION_TYPE_UNSUPPORTED
    /\ sess.state = XR_SESSION_STATE_READY

----------------------------------------------------------------------------
EndContract(pre, ret, post, log) ==
    /\ ~InRunning(pre.state) =>
          ret = XR_ERROR_SESSION_NOT_RUNNING /\ post = pre /\ log = <<>>
    /\ InRunning(pre.state) /\ pre.state # XR_SESSION_STATE_STOPPING =>
          ret = XR_ERROR_SESSION_NOT_STOPPING /\ post = pre /\ log = <<>>
    /\ pre.state = XR_SESSION_STATE_STOPPING =>
          /\ ret = XR_SUCCESS
          /\ pre.exiting =>
                /\ EventStates(log) = <<XR_SESSION_STATE_IDLE, XR_SESSION_STATE_EXITING>>
                /\ post.state = XR_SESSION_STATE_EXITING
          /\ ~pre.exiting =>
                /\ EventStates(log) = <<XR_SESSION_STATE_IDLE, XR_SESSION_STATE_READY>>
                /\ post.state = XR_SESSION_STATE_READY

\* C2: end returns XR_ERROR_SESSION_NOT_RUNNING when the session is not
\* running, XR_ERROR_SESSION_NOT_STOPPING when it is running but not STOPPING,
\* and otherwise succeeds, announcing IDLE and then EXITING if exiting is set
\* and READY if not, and leaving the session in that last state.  Checked of
\* every call made and of oxr_session_end on every session value.
C2_EndResult ==
    last.op = "end" =>
        /\ EndContract(last.pre, last.ret, sess, last.log)
        /\ \A s \in AnySession :
              LET r == oxr_session_end(s)
              IN  EndContract(s, r.ret, r.sess, r.log)

C2_Witness ==
    /\ last.op = "end"
    /\ last.pre.state = XR_SESSION_STATE_STOPPING
    /\ last.pre.exiting
    /\ last.ret = XR_SUCCESS
    /\ sess.state = XR_SESSION_STATE_EXITING

----------------------------------------------------------------------------
\* the transition graph of the session state
Edges ==
    { <<XR_SESSION_STATE_READY, XR_SESSION_STATE_SYNCHRONIZED>>,
      <<XR_SESSION_STATE_SYNCHRONIZED, XR_SESSION_STATE_VISIBLE>>,
      <<XR_SESSION_STATE_VISIBLE, XR_SESSION_STATE_FOCUSED>>,
      <<XR_SESSION_STATE_FOCUSED, XR_SESSION_STATE_VISIBLE>>,
      <<XR_SESSION_STATE_VISIBLE, XR_SESSION_STATE_SYNCHRONIZED>>,
      <<XR_SESSION_STATE_SYNCHRONIZED, XR_SESSION_STATE_STOPPING>>,
      <<XR_SESSION_STATE_STOPPING, XR_SESSION_STATE_IDLE>>,
      <<XR_SESSION_STATE_IDLE, XR_SESSION_STATE_EXITING>>,
      <<XR_SESSION_STATE_IDLE, XR_SESSION_STATE_READY>> }

\* the states a call moved the session through, its state before included
StatePath(pre, log) == <<pre.state>> \o EventStates(log)

\* C3 as stated: every change of the session state made by begin, end or
\* request_exit (each step announced by a state-change event, the
\* intermediate ones included) is an edge of the transition graph.
C3_Original ==
    last.op \in {"begin", "end", "request_exit"} =>
        LET path == StatePath(last.pre, last.log)
        IN  \A i \in 1..(Len(path) - 1) :
                path[i] # path[i + 1] => <<path[i], path[i + 1]>> \in Edges

----------------------------------------------------------------------------
\* C4 as stated: once the session state is EXITING no later call changes it.
C4_Original ==
    [][sess.state = XR_SESSION_STATE_EXITING =>
           sess'.state = XR_SESSION_STATE_EXITING]_vars

----------------------------------------------------------------------------
RequestExitContract(pre, ret, post, log) ==
    /\ ~InRunning(pre.state) =>
          ret = XR_ERROR_SESSION_NOT_RUNNING /\ post = pre /\ log = <<>>
    /\ InRunning(pre.state) =>
          /\ ret = XR_SUCCESS
          /\ post.exiting
          /\ post.state = XR_SESSION_STATE_STOPPING
          /\ log = [i \in 1..Len(log) |-> Event(EventStates(log)[i])]
    /\ pre.state = XR_SESSION_STATE_FOCUSED =>
          EventStates(log) = <<XR_SESSION_STATE_VISIBLE,
                               XR_SESSION_STATE_SYNCHRONIZED,
                               XR_SESSION_STATE_STOPPING>>
    /\ pre.state = XR_SESSION_STATE_VISIBLE =>
          EventStates(log) = <<XR_SESSION_STATE_SYNCHRONIZED,
                               XR_SESSION_STATE_STOPPING>>
    /\ pre.state = XR_SESSION_STATE_SYNCHRONIZED =>
          EventStates(log) = <<XR_SESSION_STATE_STOPPING>>

\* C5: request_exit fails with XR_ERROR_SESSION_NOT_RUNNING unless the session
\* is running; otherwise it succeeds, sets exiting and leaves the session in
\* STOPPING, having announced VISIBLE, SYNCHRONIZED, STOPPING from FOCUSED,
\* SYNCHRONIZED, STOPPING from VISIBLE and STOPPING from SYNCHRONIZED.  Checked
\* of every call made and of oxr_session_request_exit on every session value.
C5_RequestExitWalksDown ==
    last.op = "request_exit" =>
        /\ RequestExitContract(last.pre, last.ret, sess, last.log)
        /\ \A s \in AnySession :
              LET r == oxr_session_request_exit(s)
              IN  RequestExitContract(s, r.ret, r.sess, r.log)

C5_Witness ==
    /\ last.op = "request_exit"
    /\ last.pre.state = XR_SESSION_STATE_FOCUSED
    /\ ~last.pre.exiting
    /\ sess.state = XR_SESSION_STATE_STOPPING
    /\ sess.exiting
    /\ Len(last.log) = 3

----------------------------------------------------------------------------
\* C6: a begin on a session in READY with the system's view configuration
\* type succeeds, leaves the session in FOCUSED and pushes exactly the events
\* SYNCHRONIZED, VISIBLE, FOCUSED in that order; with a compositor exactly one
\* begin_session call is made, before the first event, and on a headless
\* session no compositor call is made.
C6_BeginFromReady ==
    ( /\ last.op = "begin"
      /\ last.pre.state = XR_SESSION_STATE_READY
      /\ last.args.primaryViewConfigurationType = sys.view_config_type )
    =>
    /\ last.ret = XR_SUCCESS
    /\ sess.state = XR_SESSION_STATE_FOCUSED
    /\ EventStates(last.log) = <<XR_SESSION_STATE_SYNCHRONIZED,
                                 XR_SESSION_STATE_VISIBLE,
                                 XR_SESSION_STATE_FOCUSED>>
    /\ last.pre.compositor # NULL =>
          /\ CompCalls(last.log) = <<"begin_session">>
          /\ last.log[1] = Comp("begin_session")
          /\ Len(last.log) = 4
    /\ last.pre.compositor = NULL =>
          /\ CompCalls(last.log) = <<>>
          /\ Len(last.log) = 3

C6_Witness ==
    /\ last.op = "begin"
    /\ last.pre.state = XR_SESSION_STATE_READY
    /\ last.pre.compositor = XC
    /\ last.args.primaryViewConfigurationType = sys.view_config_type
    /\ sess.state = XR_SESSION_STATE_FOCUSED

----------------------------------------------------------------------------
\* C7: a creation that succeeds hands out a session in READY with
\* frame_started false, having pushed exactly the events IDLE and READY in
\* that order; a creation with no graphics binding and headless not enabled,
\* or with a binding whose graphics requirements were not queried, returns
\* XR_ERROR_VALIDATION_FAILURE; a creation that fails pushes no event and
\* hands out no session.
C7_Create ==
    last.op = "create" =>
        /\ last.ret = XR_SUCCESS =>
              /\ have_session
              /\ sess.state = XR_SESSION_STATE_READY
              /\ ~sess.frame_started
              /\ last.log = <<Event(XR_SESSION_STATE_IDLE),
                              Event(XR_SESSION_STATE_READY)>>
        /\ ( \/ last.args.binding = "none" /\ ~last.args.MND_headless
             \/ last.args.binding # "none" /\ ~last.args.gotten_requirements )
           => last.ret = XR_ERROR_VALIDATION_FAILURE
        /\ last.ret # XR_SUCCESS =>
              /\ ~have_session
              /\ EventStates(last.log) = <<>>

C7_Witness ==
    /\ last.op = "create"
    /\ last.ret = XR_SUCCESS
    /\ have_session
    /\ sess.compositor = XC
    /\ sess.state = XR_SESSION_STATE_READY

----------------------------------------------------------------------------
\* a layer that the validation rules reject whatever else the frame holds
InvalidPose(pose) ==
    \/ pose.orientation[1] * pose.orientation[1]
         + pose.orientation[2] * pose.orientation[2]
         + pose.orientation[3] * pose.orientation[3]
         + pose.orientation[4] * pose.orientation[4] # 1
    \/ \E i \in 1..3 : pose.position[i] \in {"nan", "inf"}

UnusableSc(sc) ==
    sc.handle # NULL /\ (sc.released_index = -1 \/ sc.released_index >= sc.num_images)

InvalidLayer(layer) ==
    \/ layer.type \notin {"QUAD", "PROJECTION"}
    \/ /\ layer.type = "QUAD"
       /\ \/ layer.space = NULL
          \/ layer.swapchain.handle = NULL
          \/ UnusableSc(layer.swapchain)
          \/ InvalidPose(layer.pose)
          \/ \E k \in 1..2 : layer.offset[k] < 0 \/ layer.offset[k] >= 1
    \/ /\ layer.type = "PROJECTION"
       /\ \/ layer.space = NULL
          \/ layer.viewCount # 2
          \/ \E v \in 1..2 :
                InvalidPose(layer.views[v].pose) \/ UnusableSc(layer.views[v].swapchain)

\* C8: a frame_end that does not return success has made no layer_begin,
\* layer_quad, layer_stereo_projection or layer_commit call; and a frame_end
\* whose layer list holds an invalid layer, at whatever position, makes none
\* of these calls.
C8_AllOrNothing ==
    last.op = "frame_end" =>
        /\ last.ret # XR_SUCCESS => LayerCallsOf(last.log) = {}
        /\ (\E i \in 1..Len(last.args.layers) : InvalidLayer(last.args.layers[i]))
              => LayerCallsOf(last.log) = {}

C8_Witness ==
    /\ last.op = "frame_end"
    /\ last.pre.compositor = XC
    /\ Len(last.args.layers) = 2
    /\ ~InvalidLayer(last.args.layers[1])
    /\ InvalidLayer(last.args.layers[2])
    /\ IsError(last.ret)
    /\ last.ret \notin {XR_ERROR_SESSION_NOT_RUNNING, XR_ERROR_CALL_ORDER_INVALID}
    /\ last.log = <<>>

----------------------------------------------------------------------------
\* the compositor's blend mode for a blend mode of the request
ResolvedBlendMode(blend) ==
    IF blend = "XR_ENVIRONMENT_BLEND_MODE_OPAQUE" THEN "XRT_BLEND_MODE_OPAQUE"
    ELSE IF blend = "XR_ENVIRONMENT_BLEND_MODE_ADDITIVE" THEN "XRT_BLEND_MODE_ADDITIVE"
    ELSE "XRT_BLEND_MODE_ALPHA_BLEND"

SubmitCallFor(layer) ==
    IF layer.type = "QUAD" THEN "layer_quad" ELSE "layer_stereo_projection"

\* C9: a frame_end that succeeds with n >= 1 layers on a session with a
\* compositor makes exactly these compositor calls: layer_begin with the
\* blend mode the request resolves to, then n submit calls, the i-th being
\* the quad or stereo-projection submit of layers[i], then layer_commit; and
\* it leaves frame_started false.
C9_SubmitSequence ==
    ( /\ last.op = "frame_end"
      /\ last.ret = XR_SUCCESS
      /\ last.pre.compositor # NULL
      /\ last.args.layerCount >= 1 )
    =>
    LET n == last.args.layerCount
        layers == last.args.layers
    IN  /\ Len(last.log) = n + 2
        /\ CompCalls(last.log) =
              <<"layer_begin">>
              \o [i \in 1..n |-> SubmitCallFor(layers[i])]
              \o <<"layer_commit">>
        /\ last.log[1].blend_mode = ResolvedBlendMode(last.args.environmentBlendMode)
        /\ last.log[1].blend_mode \in sys.blend_mode
        /\ ~sess.frame_started

C9_Witness ==
    /\ last.op = "frame_end"
    /\ last.ret = XR_SUCCESS
    /\ last.pre.compositor = XC
    /\ last.args.layerCount = 2
    /\ last.args.layers[1].type = "QUAD"
    /\ last.args.layers[2].type = "PROJECTION"
    /\ Len(last.log) = 4

----------------------------------------------------------------------------
\* C10: frame_started goes from false to true only in a frame_begin that
\* returns success, and from true to false only in a frame_end or a session
\* end that returns success; a call that returns an error leaves it as it was.
C10_FrameStartedChanges ==
    last.op # "none" =>
        /\ (~last.pre.frame_started /\ sess.frame_started) =>
              last.op = "frame_begin" /\ last.ret = XR_SUCCESS
        /\ (last.pre.frame_started /\ ~sess.frame_started) =>
              last.op \in {"frame_end", "end"} /\ last.ret = XR_SUCCESS
        /\ IsError(last.ret) => sess.frame_started = last.pre.frame_started

C10_Witness ==
    /\ last.op = "end"
    /\ last.ret = XR_SUCCESS
    /\ last.pre.frame_started
    /\ ~sess.frame_started

----------------------------------------------------------------------------
\* C11: on a running session a frame_begin made while a frame is open
\* returns XR_FRAME_DISCARDED, leaves frame_started true and, with a
\* compositor, calls discard_frame and then begin_frame; a frame_begin made
\* with no frame open returns XR_SUCCESS, sets frame_started and, with a
\* compositor, calls begin_frame only.
C11_FrameBeginTwice ==
    (last.op = "frame_begin" /\ InRunning(last.pre.state)) =>
        /\ sess = [last.pre EXCEPT !.frame_started = TRUE]
        /\ last.pre.frame_started =>
              /\ last.ret = XR_FRAME_DISCARDED
              /\ last.log = IF last.pre.compositor # NULL
                            THEN <<Comp("discard_frame"), Comp("begin_frame")>>
                            ELSE <<>>
        /\ ~last.pre.frame_started =>
              /\ last.ret = XR_SUCCESS
              /\ last.log = IF last.pre.compositor # NULL
                            THEN <<Comp("begin_frame")>>
                            ELSE <<>>

C11_Witness ==
    /\ last.op = "frame_begin"
    /\ last.pre.frame_started
    /\ last.pre.compositor = XC
    /\ last.ret = XR_FRAME_DISCARDED
    /\ sess.frame_started
    /\ Len(last.log) = 2

----------------------------------------------------------------------------
\* C12 as stated: a frame_end with displayTime <= 0 returns
\* XR_ERROR_TIME_INVALID in every session state and for every value of
\* frame_started.
C12_Original ==
    (last.op = "frame_end" /\ last.args.displayTime <= 0) =>
        last.ret = XR_ERROR_TIME_INVALID

\* C12: a frame_end with displayTime <= 0 always fails and changes nothing;
\* it returns XR_ERROR_SESSION_NOT_RUNNING on a session that is not running,
\* XR_ERROR_CALL_ORDER_INVALID on a running session with no frame open, and
\* XR_ERROR_TIME_INVALID otherwise, whatever the compositor, the blend mode
\* and the layer list are.
C12_TimeCheckedThird ==
    (last.op = "frame_end" /\ last.args.displayTime <= 0) =>
        /\ sess = last.pre
        /\ last.log = <<>>
        /\ last.ret = IF ~InRunning(last.pre.state)
                      THEN XR_ERROR_SESSION_NOT_RUNNING
                      ELSE IF ~last.pre.frame_started
                      THEN XR_ERROR_CALL_ORDER_INVALID
                      ELSE XR_ERROR_TIME_INVALID

C12_Witness ==
    /\ last.op = "frame_end"
    /\ last.args.displayTime = 0
    /\ last.args.environmentBlendMode = "XR_ENVIRONMENT_BLEND_MODE_MAX_ENUM"
    /\ last.args.layerCount = 2
    /\ last.pre.compositor = NULL
    /\ last.pre.frame_started
    /\ last.ret = XR_ERROR_TIME_INVALID

----------------------------------------------------------------------------
\* the blend modes of the request that the runtime knows
RecognizedBlendMode(blend) ==
    blend \in { "XR_ENVIRONMENT_BLEND_MODE_OPAQUE",
                "XR_ENVIRONMENT_BLEND_MODE_ADDITIVE",
                "XR_ENVIRONMENT_BLEND_MODE_ALPHA_BLEND" }

\* ... and that the head device advertises
SupportedBlendMode(blend) ==
    RecognizedBlendMode(blend) /\ ResolvedBlendMode(blend) \in sys.blend_mode

\* a frame_end that gets past the running, frame-open and display-time checks
PastTimeCheck ==
    /\ last.op = "frame_end"
    /\ InRunning(last.pre.state)
    /\ last.pre.frame_started
    /\ last.args.displayTime > 0

\* C13 as stated: past these checks, a frame_end with layerCount = 0 returns
\* success, closes the frame and makes exactly one compositor call,
\* discard_frame, whatever the blend mode.
C13_Original ==
    (PastTimeCheck /\ last.args.layerCount = 0) =>
        /\ last.ret = XR_SUCCESS
        /\ ~sess.frame_started
        /\ last.log = <<Comp("discard_frame")>>

\* C13: past these checks, a frame_end with layerCount = 0 closes the frame
\* and returns success without a compositor call on a headless session; with
\* a compositor and a supported blend mode it closes the frame, calls
\* discard_frame once and nothing else, and returns success; with a
\* compositor and any other blend mode it fails, calls nothing and leaves
\* the frame open.
C13_EmptyFrame ==
    (PastTimeCheck /\ last.args.layerCount = 0) =>
        IF last.pre.compositor = NULL
        THEN /\ last.ret = XR_SUCCESS
             /\ sess = [last.pre EXCEPT !.frame_started = FALSE]
             /\ last.log = <<>>
        ELSE IF SupportedBlendMode(last.args.environmentBlendMode)
        THEN /\ last.ret = XR_SUCCESS
             /\ sess = [last.pre EXCEPT !.frame_started = FALSE]
             /\ last.log = <<Comp("discard_frame")>>
        ELSE /\ IsError(last.ret)
             /\ sess = last.pre
             /\ last.log = <<>>

C13_Witness ==
    /\ PastTimeCheck
    /\ last.args.layerCount = 0
    /\ last.pre.compositor = XC
    /\ last.args.environmentBlendMode = "XR_ENVIRONMENT_BLEND_MODE_ALPHA_BLEND"
    /\ last.ret = XR_SUCCESS
    /\ ~sess.frame_started
    /\ last.log = <<Comp("discard_frame")>>

----------------------------------------------------------------------------
\* C14: past these checks and with a compositor, a frame_end with an
\* unrecognized blend mode returns XR_ERROR_VALIDATION_FAILURE and one with a
\* recognized blend mode outside the head device's mask returns
\* XR_ERROR_ENVIRONMENT_BLEND_MODE_UNSUPPORTED, for every layer list and so
\* for layerCount = 0 too; either way no compositor call is made and the
\* frame stays open.
C14_BlendModeChecked ==
    (PastTimeCheck /\ last.pre.compositor # NULL
        /\ ~SupportedBlendMode(last.args.environmentBlendMode)) =>
        /\ last.ret = IF RecognizedBlendMode(last.args.environmentBlendMode)
                      THEN XR_ERROR_ENVIRONMENT_BLEND_MODE_UNSUPPORTED
                      ELSE XR_ERROR_VALIDATION_FAILURE
        /\ last.log = <<>>
        /\ sess = last.pre
        /\ sess.frame_started

C14_Witness ==
    /\ PastTimeCheck
    /\ last.pre.compositor = XC
    /\ last.args.layerCount = 0
    /\ last.args.environmentBlendMode = "XR_ENVIRONMENT_BLEND_MODE_ADDITIVE"
    /\ last.ret = XR_ERROR_ENVIRONMENT_BLEND_MODE_UNSUPPORTED
    /\ sess.frame_started

----------------------------------------------------------------------------
\* a frame_end that reaches the validation of its layers
ReachesValidation ==
    /\ PastTimeCheck
    /\ last.pre.compositor # NULL
    /\ SupportedBlendMode(last.args.environmentBlendMode)
    /\ ~last.args.layers_null

\* a layer that every validation rule accepts
ValidLayer(layer) ==
    /\ ~InvalidLayer(layer)
    /\ layer.type = "PROJECTION" =>
          \A v \in 1..2 : layer.views[v].swapchain.handle # NULL

\* layers[i] is the first layer of the list that is not valid
FirstInvalid(layers, i) ==
    \A j \in 1..(i - 1) : ValidLayer(layers[j])

\* C15: a frame_end that reaches validation and whose first invalid layer is
\* a stereo projection with a space and a view count other than 2 returns
\* XR_ERROR_VALIDATION_FAILURE, makes no compositor call and leaves the frame
\* open.
C15_ProjectionViewCount ==
    ReachesValidation =>
        \A i \in 1..Len(last.args.layers) :
            LET layer == last.args.layers[i]
            IN  ( /\ layer.type = "PROJECTION"
                  /\ layer.space # NULL
                  /\ layer.viewCount # 2
                  /\ FirstInvalid(last.args.layers, i) )
                =>
                /\ last.ret = XR_ERROR_VALIDATION_FAILURE
                /\ last.log = <<>>
                /\ sess = last.pre

C15_Witness ==
    /\ ReachesValidation
    /\ last.args.layerCount = 2
    /\ last.args.layers[1].type = "QUAD"
    /\ ValidLayer(last.args.layers[1])
    /\ last.args.layers[2].type = "PROJECTION"
    /\ last.args.layers[2].space # NULL
    /\ last.args.layers[2].viewCount = 3
    /\ last.ret = XR_ERROR_VALIDATION_FAILURE
    /\ last.log = <<>>

----------------------------------------------------------------------------
\* C16: a frame_end that reaches validation and whose first invalid layer is
\* a quad with a swapchain, a space and a pose whose orientation is not a
\* unit quaternion or whose position is not finite returns
\* XR_ERROR_POSE_INVALID, makes no compositor call and leaves the frame open.
C16_QuadPose ==
    ReachesValidation =>
        \A i \in 1..Len(last.args.layers) :
            LET layer == last.args.layers[i]
            IN  ( /\ layer.type = "QUAD"
                  /\ layer.swapchain.handle # NULL
                  /\ layer.space # NULL
                  /\ InvalidPose(layer.pose)
                  /\ FirstInvalid(last.args.layers, i) )
                =>
                /\ last.ret = XR_ERROR_POSE_INVALID
                /\ last.log = <<>>
                /\ sess = last.pre

C16_Witness ==
    /\ ReachesValidation
    /\ last.args.layerCount = 2
    /\ last.args.layers[1].type = "PROJECTION"
    /\ ValidLayer(last.args.layers[1])
    /\ last.args.layers[2].type = "QUAD"
    /\ last.args.layers[2].swapchain.handle # NULL
    /\ last.args.layers[2].space # NULL
    /\ last.args.layers[2].pose.orientation = <<0, 0, 0, 2>>
    /\ last.ret = XR_ERROR_POSE_INVALID
    /\ last.log = <<>>

----------------------------------------------------------------------------
\* the swapchains a layer refers to
SwapchainsOf(layer) ==
    IF layer.type = "QUAD" THEN {layer.swapchain}
    ELSE IF layer.type = "PROJECTION"
    THEN {layer.views[v].swapchain : v \in 1..Len(layer.views)}
    ELSE {}

\* C17: every swapchain handed to the compositor by a layer_quad or
\* layer_stereo_projection call has a released index that is not -1 and is
\* below its number of images; and on a session with a compositor a
\* frame_end with a layer that refers to a swapchain failing either
\* condition makes no layer call and, unless the process dies in it, returns
\* an error.
C17_SubmittedSwapchains ==
    last.op = "frame_end" =>
        /\ \A i \in LayerCallsOf(last.log) :
              last.log[i].call \in {"layer_quad", "layer_stereo_projection"} =>
                  \A k \in 1..Len(last.log[i].chains) :
                      /\ last.log[i].chains[k].released_index # -1
                      /\ last.log[i].chains[k].released_index
                            < last.log[i].chains[k].num_images
        /\ ( /\ last.pre.compositor # NULL
             /\ \E i \in 1..Len(last.args.layers) :
                   \E sc \in SwapchainsOf(last.args.layers[i]) : UnusableSc(sc) )
           =>
           /\ LayerCallsOf(last.log) = {}
           /\ last.ret # CRASHED => IsError(last.ret)

C17_Witness ==
    /\ ReachesValidation
    /\ last.args.layerCount = 2
    /\ ValidLayer(last.args.layers[1])
    /\ last.args.layers[2].type = "PROJECTION"
    /\ last.args.layers[2].viewCount = 2
    /\ ~UnusableSc(last.args.layers[2].views[1].swapchain)
    /\ last.args.layers[2].views[2].swapchain.released_index
          >= last.args.layers[2].views[2].swapchain.num_images
    /\ ~InvalidPose(last.args.layers[2].views[1].pose)
    /\ ~InvalidPose(last.args.layers[2].views[2].pose)
    /\ last.ret = XR_ERROR_RUNTIME_FAILURE
    /\ last.log = <<>>

----------------------------------------------------------------------------
\* the times the compositor and the time-state conversion can hand back
WaitTimes == {-1, 0, 1}

\* C18: frame_wait returns XR_ERROR_SESSION_NOT_RUNNING exactly when the
\* session is not running, and then calls nothing; on a running session
\* without a compositor it returns success with shouldRender false and makes
\* no compositor call; it never changes the session.  This holds for the
\* call just made and for every session value and every pair of times.
WaitContractHeadless(s, r) ==
    /\ r.sess = s
    /\ (r.ret = XR_ERROR_SESSION_NOT_RUNNING) <=> ~InRunning(s.state)
    /\ ~InRunning(s.state) => r.log = <<>>
    /\ (InRunning(s.state) /\ s.compositor = NULL) =>
          /\ r.ret = XR_SUCCESS
          /\ r.out.shouldRender = FALSE
          /\ CompCalls(r.log) = <<>>

C18_WaitFrameHeadless ==
    last.op = "frame_wait" =>
        /\ WaitContractHeadless(last.pre, [sess |-> sess, ret |-> last.ret,
                                           log |-> last.log, out |-> last.out])
        /\ \A s \in AnySession, native \in WaitTimes, converted \in WaitTimes :
              WaitContractHeadless(s, oxr_session_frame_wait(s, native, converted))

C18_Witness ==
    /\ last.op = "frame_wait"
    /\ InRunning(last.pre.state)
    /\ last.pre.compositor = NULL
    /\ last.ret = XR_SUCCESS
    /\ last.out.shouldRender = FALSE
    /\ CompCalls(last.log) = <<>>

----------------------------------------------------------------------------
\* C19: on a running session with a compositor frame_wait makes exactly one
\* compositor call, wait_frame; it returns XR_ERROR_RUNTIME_FAILURE when the
\* compositor's time or the converted time is not positive and success
\* otherwise, and on success shouldRender is true exactly in VISIBLE, FOCUSED
\* and STOPPING.  This holds for the call just made and for every session
\* value and every pair of times.
WaitContractCompositor(s, native, converted, r) ==
    (InRunning(s.state) /\ s.compositor # NULL) =>
        /\ r.sess = s
        /\ CompCalls(r.log) = <<"wait_frame">>
        /\ r.ret = IF native <= 0 \/ converted <= 0
                   THEN XR_ERROR_RUNTIME_FAILURE
                   ELSE XR_SUCCESS
        /\ r.ret = XR_SUCCESS =>
              r.out.shouldRender =
                  (s.state \in { XR_SESSION_STATE_VISIBLE, XR_SESSION_STATE_FOCUSED,
                                 XR_SESSION_STATE_STOPPING })

C19_WaitFrameCompositor ==
    last.op = "frame_wait" =>
        /\ WaitContractCompositor(last.pre, last.args.native, last.args.converted,
                                  [sess |-> sess, ret |-> last.ret,
                                   log |-> last.log, out |-> last.out])
        /\ \A s \in AnySession, native \in WaitTimes, converted \in WaitTimes :
              WaitContractCompositor(s, native, converted,
                                     oxr_session_frame_wait(s, native, converted))

C19_Witness ==
    /\ last.op = "frame_wait"
    /\ last.pre.state = XR_SESSION_STATE_STOPPING
    /\ last.pre.compositor = XC
    /\ last.args.native > 0
    /\ last.args.converted > 0
    /\ last.ret = XR_SUCCESS
    /\ last.out.shouldRender = TRUE
    /\ CompCalls(last.log) = <<"wait_frame">>

----------------------------------------------------------------------------
\* the elements of the views buffer that a call wrote
WrittenViews(out) ==
    { i \in DOMAIN out.views : out.views[i].written }

\* C20: with a reference space, locate_views writes 2 to the count output
\* (when the caller passes one) and: with capacity 0 returns success and
\* writes no view; with capacity 1 returns XR_ERROR_SIZE_INSUFFICIENT and
\* writes no view; with capacity 2 or more returns success, writes the first
\* two elements of views and no other, and sets viewStateFlags to the
\* orientation-valid and position-valid bits.  The session is not changed.
C20_LocateViewsTwoCall ==
    (last.op = "locate_views" /\ last.args.space.is_reference) =>
        LET capacity == last.args.viewCapacityInput
        IN  /\ sess = last.pre
            /\ ~last.args.count_null => last.out.viewCountOutput = <<2>>
            /\ capacity = 0 =>
                  /\ last.ret = XR_SUCCESS
                  /\ WrittenViews(last.out) = {}
            /\ capacity = 1 =>
                  /\ last.ret = XR_ERROR_SIZE_INSUFFICIENT
                  /\ WrittenViews(last.out) = {}
            /\ capacity >= 2 =>
                  /\ last.ret = XR_SUCCESS
                  /\ WrittenViews(last.out) = {1, 2}
                  /\ last.out.viewStateFlags =
                        << {"XR_VIEW_STATE_ORIENTATION_VALID_BIT",
                            "XR_VIEW_STATE_POSITION_VALID_BIT"} >>

C20_Witness ==
    /\ last.op = "locate_views"
    /\ last.args.space.is_reference
    /\ last.args.viewCapacityInput = 3
    /\ ~last.args.count_null
    /\ last.ret = XR_SUCCESS
    /\ last.out.viewCountOutput = <<2>>
    /\ WrittenViews(last.out) = {1, 2}

----------------------------------------------------------------------------
\* C21: with a space that is not a reference space, locate_views returns
\* success with viewStateFlags 0 for every capacity, writes no view and no
\* view count, makes no call and leaves the session as it was.
C21_NonReferenceSpace ==
    (last.op = "locate_views" /\ ~last.args.space.is_reference) =>
        /\ last.ret = XR_SUCCESS
        /\ last.out.viewStateFlags = << {} >>
        /\ last.out.viewCountOutput = <<>>
        /\ WrittenViews(last.out) = {}
        /\ last.log = <<>>
        /\ sess = last.pre

C21_Witness ==
    /\ last.op = "locate_views"
    /\ ~last.args.space.is_reference
    /\ last.args.viewCapacityInput = 3
    /\ ~last.args.count_null
    /\ last.ret = XR_SUCCESS
    /\ last.out.viewCountOutput = <<>>
    /\ last.out.viewStateFlags = << {} >>

----------------------------------------------------------------------------
\* C22: on a session without a compositor no call reaches a compositor, and
\* begin succeeds when the session is not running, end when it is STOPPING,
\* frame_wait and frame_begin when it is running, and frame_end when it is
\* running with a frame open and displayTime > 0; that frame_end closes the
\* frame and changes nothing else, for every blend mode and layer list.
C22_HeadlessSucceeds ==
    (last.op \in {"begin", "end", "frame_wait", "frame_begin", "frame_end"}
        /\ last.pre.compositor = NULL) =>
        /\ CompCalls(last.log) = <<>>
        /\ (last.op = "begin" /\ ~InRunning(last.pre.state)) =>
              last.ret = XR_SUCCESS
        /\ (last.op = "end" /\ last.pre.state = XR_SESSION_STATE_STOPPING) =>
              last.ret = XR_SUCCESS
        /\ (last.op = "frame_wait" /\ InRunning(last.pre.state)) =>
              last.ret = XR_SUCCESS
        /\ (last.op = "frame_begin" /\ InRunning(last.pre.state)) =>
              last.ret \in {XR_SUCCESS, XR_FRAME_DISCARDED}
        /\ PastTimeCheck =>
              /\ last.ret = XR_SUCCESS
              /\ sess = [last.pre EXCEPT !.frame_started = FALSE]
              /\ last.log = <<>>

C22_Witness ==
    /\ PastTimeCheck
    /\ last.pre.compositor = NULL
    /\ last.args.environmentBlendMode = "XR_ENVIRONMENT_BLEND_MODE_MAX_ENUM"
    /\ Len(last.args.layers) = 1
    /\ InvalidLayer(last.args.layers[1])
    /\ last.ret = XR_SUCCESS
    /\ ~sess.frame_started

----------------------------------------------------------------------------
\* C23 as stated: on every session that is not running, a begin with a view
\* configuration type other than the system's returns
\* XR_ERROR_VIEW_CONFIGURATION_TYPE_UNSUPPORTED, changes nothing and calls
\* nothing.
C23_Original ==
    (last.op = "begin" /\ ~InRunning(last.pre.state)
        /\ last.args.primaryViewConfigurationType # sys.view_config_type) =>
        /\ last.ret = XR_ERROR_VIEW_CONFIGURATION_TYPE_UNSUPPORTED
        /\ sess = last.pre
        /\ last.log = <<>>

\* what begin does on a session s that is not running when the view
\* configuration type it is given is not the system's
BeginMismatchContract(s, r) ==
    ~InRunning(s.state) =>
        IF s.compositor # NULL
        THEN /\ r.ret = XR_ERROR_VIEW_CONFIGURATION_TYPE_UNSUPPORTED
             /\ r.sess = s
             /\ r.log = <<>>
        ELSE /\ r.ret = XR_SUCCESS
             /\ r.sess = [s EXCEPT !.state = XR_SESSION_STATE_FOCUSED]
             /\ CompCalls(r.log) = <<>>
             /\ EventStates(r.log) =
                   << XR_SESSION_STATE_SYNCHRONIZED, XR_SESSION_STATE_VISIBLE,
                      XR_SESSION_STATE_FOCUSED >>

\* C23: on a session that is not running and has a compositor, a begin with
\* a view configuration type other than the system's returns
\* XR_ERROR_VIEW_CONFIGURATION_TYPE_UNSUPPORTED, changes nothing, announces
\* nothing and calls nothing; on a session that is not running and has no
\* compositor the same begin succeeds, announces SYNCHRONIZED, VISIBLE and
\* FOCUSED and leaves the session in FOCUSED.  This holds for the call just
\* made and for every session value.
C23_ViewConfigMismatch ==
    (last.op = "begin"
        /\ last.args.primaryViewConfigurationType # sys.view_config_type) =>
        /\ BeginMismatchContract(last.pre, [sess |-> sess, ret |-> last.ret,
                                            log |-> last.log])
        /\ \A s \in AnySession :
              BeginMismatchContract(s,
                  oxr_session_begin(s, last.args.primaryViewConfigurationType, sys))

C23_Witness ==
    /\ last.op = "begin"
    /\ last.args.primaryViewConfigurationType # sys.view_config_type
    /\ last.pre.state = XR_SESSION_STATE_READY
    /\ last.pre.compositor = XC
    /\ last.ret = XR_ERROR_VIEW_CONFIGURATION_TYPE_UNSUPPORTED
    /\ sess = last.pre
    /\ last.log = <<>>

----------------------------------------------------------------------------
\* the interval get_view_pose_at predicts over, in milliseconds
PredictionInterval(args) ==
    IF args.dynamic_prediction
    THEN (IF args.at_time >= args.relation.timestamp
          THEN (args.at_time - args.relation.timestamp) \div 1000000
          ELSE -((args.relation.timestamp - args.at_time) \div 1000000))
         + args.static_prediction_s
    ELSE args.static_prediction_s

\* C24: get_view_pose_at succeeds and hands back the sample's position
\* unchanged; with the angular velocity valid the orientation handed back is
\* the sample's turned by the angular velocity over the interval, which is
\* (at_time - timestamp) + static_prediction_s under dynamic prediction and
\* static_prediction_s otherwise, and is the sample's own when the interval
\* is 0; with the angular velocity not valid the whole sample pose is handed
\* back.  The session is not changed.
C24_ViewPosePrediction ==
    last.op = "get_view_pose_at" =>
        LET relation == last.args.relation
            interval == PredictionInterval(last.args)
        IN  /\ last.ret = XR_SUCCESS
            /\ sess = last.pre
            /\ last.out.pose.position = relation.pose.position
            /\ relation.valid_vel =>
                  last.out.pose.orientation =
                      (relation.pose.orientation
                          + relation.angular_velocity * interval) % FullTurn
            /\ (relation.valid_vel /\ interval = 0) =>
                  last.out.pose.orientation = relation.pose.orientation
            /\ ~relation.valid_vel => last.out.pose = relation.pose

C24_Witness ==
    /\ last.op = "get_view_pose_at"
    /\ last.args.relation.valid_vel
    /\ last.args.dynamic_prediction
    /\ last.args.relation.angular_velocity = 2
    /\ last.args.at_time > last.args.relation.timestamp
    /\ last.args.static_prediction_s = 2
    /\ PredictionInterval(last.args) = 3
    /\ last.out.pose.orientation # last.args.relation.pose.orientation
    /\ last.out.pose.position = last.args.relation.pose.position

----------------------------------------------------------------------------
\* the result the validation rules give a view whose swapchain is not NULL
ExpectedViewError(view) ==
    IF InvalidPose(view.pose) THEN XR_ERROR_POSE_INVALID
    ELSE IF view.swapchain.released_index = -1 THEN XR_ERROR_LAYER_INVALID
    ELSE IF view.swapchain.released_index >= view.swapchain.num_images
    THEN XR_ERROR_RUNTIME_FAILURE
    ELSE XR_SUCCESS

OffsetOutOfRange(offset) ==
    \E k \in 1..2 : offset[k] < 0 \/ offset[k] >= 1

\* the result of the first rule that a layer breaks, XR_SUCCESS if none
ExpectedLayerError(layer) ==
    IF layer.type \notin {"QUAD", "PROJECTION"} THEN XR_ERROR_LAYER_INVALID
    ELSE IF layer.type = "QUAD"
    THEN IF layer.swapchain.handle = NULL THEN XR_ERROR_LAYER_INVALID
         ELSE IF layer.space = NULL THEN XR_ERROR_VALIDATION_FAILURE
         ELSE IF InvalidPose(layer.pose) THEN XR_ERROR_POSE_INVALID
         ELSE IF layer.swapchain.released_index = -1 THEN XR_ERROR_LAYER_INVALID
         ELSE IF layer.swapchain.released_index >= layer.swapchain.num_images
         THEN XR_ERROR_RUNTIME_FAILURE
         ELSE IF OffsetOutOfRange(layer.offset) THEN XR_ERROR_SWAPCHAIN_RECT_INVALID
         ELSE XR_SUCCESS
    ELSE IF layer.space = NULL THEN XR_ERROR_VALIDATION_FAILURE
    ELSE IF layer.viewCount # 2 THEN XR_ERROR_VALIDATION_FAILURE
    ELSE IF ExpectedViewError(layer.views[1]) # XR_SUCCESS
    THEN ExpectedViewError(layer.views[1])
    ELSE ExpectedViewError(layer.views[2])

\* the validation of the layer reads through no NULL swapchain
DefinedLayer(layer) ==
    (layer.type = "PROJECTION" /\ layer.space # NULL /\ layer.viewCount = 2) =>
        /\ ~InvalidPose(layer.views[1].pose) =>
              layer.views[1].swapchain.handle # NULL
        /\ (ExpectedViewError(layer.views[1]) = XR_SUCCESS
              /\ ~InvalidPose(layer.views[2].pose)) =>
              layer.views[2].swapchain.handle # NULL

\* C25: a frame_end that reaches validation returns the result of the first
\* rule broken by the first layer of the list that breaks one, whatever the
\* layers after it are; it makes no compositor call and leaves the frame
\* open.
C25_FailFast ==
    ReachesValidation =>
        \A i \in 1..Len(last.args.layers) :
            LET layer == last.args.layers[i]
            IN  ( /\ FirstInvalid(last.args.layers, i)
                  /\ DefinedLayer(layer)
                  /\ ExpectedLayerError(layer) # XR_SUCCESS )
                =>
                /\ last.ret = ExpectedLayerError(layer)
                /\ last.log = <<>>
                /\ sess = last.pre

C25_Witness ==
    /\ ReachesValidation
    /\ Len(last.args.layers) = 2
    /\ last.args.layers[1].type = "QUAD"
    /\ last.args.layers[1].swapchain.released_index = -1
    /\ OffsetOutOfRange(last.args.layers[1].offset)
    /\ ExpectedLayerError(last.args.layers[1]) = XR_ERROR_POSE_INVALID
    /\ last.args.layers[2].type = "PROJECTION"
    /\ ExpectedLayerError(last.args.layers[2]) = XR_ERROR_VALIDATION_FAILURE
    /\ last.ret = XR_ERROR_POSE_INVALID

----------------------------------------------------------------------------
\* a quad with a space, a valid pose and an offset in range
QuadValidButSwapchain(layer) ==
    /\ layer.type = "QUAD"
    /\ layer.space # NULL
    /\ ~InvalidPose(layer.pose)
    /\ ~OffsetOutOfRange(layer.offset)

\* its swapchain is NULL, not released, or released past its images
BadSwapchain(sc) ==
    \/ sc.handle = NULL
    \/ sc.released_index = -1
    \/ sc.released_index >= sc.num_images

\* C26 as stated: a frame_end that reaches validation and whose first
\* invalid layer is an otherwise valid quad with a NULL, unreleased or
\* out-of-range swapchain returns XR_ERROR_LAYER_INVALID.
C26_Original ==
    ReachesValidation =>
        \A i \in 1..Len(last.args.layers) :
            ( /\ FirstInvalid(last.args.layers, i)
              /\ QuadValidButSwapchain(last.args.layers[i])
              /\ BadSwapchain(last.args.layers[i].swapchain) )
            => last.ret = XR_ERROR_LAYER_INVALID

\* C26: a frame_end that reaches validation and whose first invalid layer is
\* an otherwise valid quad returns XR_ERROR_LAYER_INVALID when the quad's
\* swapchain is NULL or has released index -1, and XR_ERROR_RUNTIME_FAILURE
\* when the released index is not below the number of images; in all three
\* cases no compositor call is made and the frame stays open.
C26_QuadSwapchain ==
    ReachesValidation =>
        \A i \in 1..Len(last.args.layers) :
            LET layer == last.args.layers[i]
            IN  ( /\ FirstInvalid(last.args.layers, i)
                  /\ QuadValidButSwapchain(layer)
                  /\ BadSwapchain(layer.swapchain) )
                =>
                /\ last.ret = IF layer.swapchain.handle = NULL
                                 \/ layer.swapchain.released_index = -1
                              THEN XR_ERROR_LAYER_INVALID
                              ELSE XR_ERROR_RUNTIME_FAILURE
                /\ last.log = <<>>
                /\ sess = last.pre

C26_Witness ==
    /\ ReachesValidation
    /\ Len(last.args.layers) = 2
    /\ ValidLayer(last.args.layers[1])
    /\ QuadValidButSwapchain(last.args.layers[2])
    /\ last.args.layers[2].swapchain.handle # NULL
    /\ last.args.layers[2].swapchain.released_index
          = last.args.layers[2].swapchain.num_images
    /\ last.ret = XR_ERROR_RUNTIME_FAILURE
    /\ sess.frame_started

----------------------------------------------------------------------------
\* a quad that passes the swapchain, space and pose checks
QuadValidButOffset(layer) ==
    /\ layer.type = "QUAD"
    /\ layer.space # NULL
    /\ ~InvalidPose(layer.pose)
    /\ ~BadSwapchain(layer.swapchain)

\* C27: a frame_end that reaches validation and whose first layer not known
\* to be valid is a quad that passes the swapchain, space and pose checks
\* returns XR_ERROR_SWAPCHAIN_RECT_INVALID and calls nothing when a
\* component of the quad's offset is negative or at least 1; when the offset
\* is in range, which for whole numbers means (0, 0), the quad is accepted:
\* with every other layer valid the call succeeds and the quad is submitted.
C27_QuadOffset ==
    ReachesValidation =>
        \A i \in 1..Len(last.args.layers) :
            LET layer == last.args.layers[i]
            IN  ( FirstInvalid(last.args.layers, i) /\ QuadValidButOffset(layer) )
                =>
                /\ OffsetOutOfRange(layer.offset) =>
                      /\ last.ret = XR_ERROR_SWAPCHAIN_RECT_INVALID
                      /\ last.log = <<>>
                      /\ sess = last.pre
                /\ ~OffsetOutOfRange(layer.offset) => layer.offset = <<0, 0>>
                /\ ( /\ ~OffsetOutOfRange(layer.offset)
                     /\ \A j \in (i + 1)..Len(last.args.layers) :
                           ValidLayer(last.args.layers[j]) )
                   =>
                   /\ last.ret = XR_SUCCESS
                   /\ last.log[i + 1].call = "layer_quad"
                   /\ last.log[i + 1].offset = <<0, 0>>

C27_Witness ==
    /\ ReachesValidation
    /\ Len(last.args.layers) = 2
    /\ ValidLayer(last.args.layers[1])
    /\ QuadValidButOffset(last.args.layers[2])
    /\ last.args.layers[2].offset = <<0, 1>>
    /\ last.ret = XR_ERROR_SWAPCHAIN_RECT_INVALID
    /\ last.log = <<>>

----------------------------------------------------------------------------
\* a call that returned an error left the session s as it was and announced
\* no state
NoPartialSuccess(s, r) ==
    IsError(r.ret) => (r.sess = s /\ EventStates(r.log) = <<>>)

\* C28: a begin, end, request_exit, frame_wait, frame_begin or frame_end
\* that returns an error leaves state, frame_started and exiting as they
\* were and announces no state change.  For the first five this holds for
\* every session value and every input as well.
C28_NoPartialSuccess ==
    /\ last.op \in {"begin", "end", "request_exit", "frame_wait", "frame_begin",
                    "frame_end"} =>
          NoPartialSuccess(last.pre, [sess |-> sess, ret |-> last.ret,
                                     log |-> last.log])
    /\ last.op = "begin" =>
          \A s \in AnySession, view_type \in {"PRIMARY_STEREO", "PRIMARY_MONO"} :
              NoPartialSuccess(s, oxr_session_begin(s, view_type, sys))
    /\ last.op = "end" =>
          \A s \in AnySession : NoPartialSuccess(s, oxr_session_end(s))
    /\ last.op = "request_exit" =>
          \A s \in AnySession : NoPartialSuccess(s, oxr_session_request_exit(s))
    /\ last.op = "frame_wait" =>
          \A s \in AnySession, native \in WaitTimes, converted \in WaitTimes :
              NoPartialSuccess(s, oxr_session_frame_wait(s, native, converted))
    /\ last.op = "frame_begin" =>
          \A s \in AnySession : NoPartialSuccess(s, oxr_session_frame_begin(s))

C28_Witness ==
    /\ last.op = "end"
    /\ last.ret = XR_ERROR_SESSION_NOT_STOPPING
    /\ last.pre.frame_started
    /\ last.pre.compositor = XC
    /\ sess = last.pre
    /\ last.log = <<>>

----------------------------------------------------------------------------
\* C29 as stated: after every end that succeeds, with or without a
\* compositor, frame_started is false.
C29_Original ==
    (last.op = "end" /\ last.ret = XR_SUCCESS) => ~sess.frame_started

----------------------------------------------------------------------------
\* the number of clock updates in a log
ClockUpdates(log) == Len(SelectKind(log, "clock"))

\* C30 as stated: every frame_wait updates the clock exactly once, before
\* any compositor call, and no other call updates it.
C30_Original ==
    last.op # "none" =>
        /\ ClockUpdates(last.log) = IF last.op = "frame_wait" THEN 1 ELSE 0
        /\ last.op = "frame_wait" => last.log[1].kind = "clock"

\* what frame_wait does to the clock on a session s
ClockContract(s, r) ==
    /\ ClockUpdates(r.log) = IF InRunning(s.state) THEN 1 ELSE 0
    /\ InRunning(s.state) => r.log[1].kind = "clock"

\* C30: a frame_wait on a running session updates the clock exactly once,
\* before any compositor call, with or without a compositor and also when
\* it goes on to return XR_ERROR_RUNTIME_FAILURE; a frame_wait on a session
\* that is not running does not update it; no other call updates it.  For
\* frame_wait this holds for every session value and every pair of times as
\* well.
C30_ClockOncePerWait ==
    last.op # "none" =>
        /\ last.op # "frame_wait" => ClockUpdates(last.log) = 0
        /\ last.op = "frame_wait" =>
              /\ ClockContract(last.pre, [log |-> last.log])
              /\ \A s \in AnySession, native \in WaitTimes, converted \in WaitTimes :
                    ClockContract(s, oxr_session_frame_wait(s, native, converted))

C30_Witness ==
    /\ last.op = "frame_wait"
    /\ InRunning(last.pre.state)
    /\ last.pre.compositor = XC
    /\ last.ret = XR_ERROR_RUNTIME_FAILURE
    /\ Len(last.log) = 2
    /\ last.log[1].kind = "clock"
    /\ last.log[2].kind = "xc"

----------------------------------------------------------------------------
\* C31: a session in STOPPING has exiting set; no call clears exiting; an
\* end that succeeds leaves the session in EXITING; and no call other than
\* the creation takes the session into READY from another state, so READY is
\* not entered again once a begin has left it.
C31_ExitingSticks ==
    /\ (have_session /\ sess.state = XR_SESSION_STATE_STOPPING) => sess.exiting
    /\ (last.op # "none" /\ last.had) =>
          /\ last.pre.exiting => sess.exiting
          /\ (last.op = "end" /\ last.ret = XR_SUCCESS) =>
                sess.state = XR_SESSION_STATE_EXITING
          /\ sess.state = XR_SESSION_STATE_READY =>
                last.pre.state = XR_SESSION_STATE_READY

C31_Witness ==
    /\ last.op = "end"
    /\ last.ret = XR_SUCCESS
    /\ last.pre.state = XR_SESSION_STATE_STOPPING
    /\ last.pre.exiting
    /\ sess.exiting
    /\ sess.state = XR_SESSION_STATE_EXITING

----------------------------------------------------------------------------
\* C32: between calls and at the start of every call the state of a session
\* is READY, FOCUSED, STOPPING or EXITING; and a frame_wait that succeeds on
\* a session with a compositor hands back shouldRender true.
C32_RestingStates ==
    /\ have_session =>
          sess.state \in { XR_SESSION_STATE_READY, XR_SESSION_STATE_FOCUSED,
                           XR_SESSION_STATE_STOPPING, XR_SESSION_STATE_EXITING }
    /\ (last.op # "none" /\ last.had) =>
          last.pre.state \in { XR_SESSION_STATE_READY, XR_SESSION_STATE_FOCUSED,
                               XR_SESSION_STATE_STOPPING, XR_SESSION_STATE_EXITING }
    /\ (last.op = "frame_wait" /\ last.pre.compositor # NULL
            /\ last.ret = XR_SUCCESS) =>
          last.out.shouldRender = TRUE

C32_Witness ==
    /\ last.op = "request_exit"
    /\ last.pre.state = XR_SESSION_STATE_FOCUSED
    /\ EventStates(last.log) =
          << XR_SESSION_STATE_VISIBLE, XR_SESSION_STATE_SYNCHRONIZED,
             XR_SESSION_STATE_STOPPING >>
    /\ sess.state = XR_SESSION_STATE_STOPPING

----------------------------------------------------------------------------
\* the compositor calls that belong to a session begun on the compositor
\* are made in order: begin_session only when none is begun, every other
\* call only when one is, end_session ending it
RECURSIVE SessionBracketed(_, _)
SessionBracketed(begun, calls) ==
    IF calls = <<>> THEN TRUE
    ELSE IF Head(calls) = "begin_session"
    THEN ~begun /\ SessionBracketed(TRUE, Tail(calls))
    ELSE IF Head(calls) = "end_session"
    THEN begun /\ SessionBracketed(FALSE, Tail(calls))
    ELSE begun /\ SessionBracketed(begun, Tail(calls))

\* C33: the compositor calls of every call on a session, taken after those
\* of the calls before it, keep begin_session and end_session alternating,
\* begin_session first, and put every wait_frame, begin_frame,
\* discard_frame, layer_begin, layer submit and layer_commit between a
\* begin_session and its end_session.
C33_SessionBracketing ==
    last.op # "none" => SessionBracketed(last.xc.session, CompCalls(last.log))

C33_Witness ==
    /\ last.op = "begin"
    /\ last.pre.state = XR_SESSION_STATE_EXITING
    /\ last.pre.compositor = XC
    /\ ~last.xc.session
    /\ CompCalls(last.log) = <<"begin_session">>
    /\ xc_state.session

----------------------------------------------------------------------------
\* the compositor's frame calls are made in order: begin_frame only when no
\* frame is open, discard_frame and the layer calls only when one is,
\* discard_frame and layer_commit closing it, end_session only when none is
RECURSIVE FrameBracketed(_, _)
FrameBracketed(open, calls) ==
    IF calls = <<>> THEN TRUE
    ELSE IF Head(calls) = "begin_frame"
    THEN ~open /\ FrameBracketed(TRUE, Tail(calls))
    ELSE IF Head(calls) \in {"discard_frame", "layer_commit"}
    THEN open /\ FrameBracketed(FALSE, Tail(calls))
    ELSE IF Head(calls) \in {"layer_begin", "layer_quad", "layer_stereo_projection"}
    THEN open /\ FrameBracketed(open, Tail(calls))
    ELSE IF Head(calls) = "end_session"
    THEN ~open /\ FrameBracketed(open, Tail(calls))
    ELSE FrameBracketed(open, Tail(calls))

\* C34: on a session with a compositor, the compositor calls of every call,
\* failing ones included, taken after those of the calls before it, close
\* every begin_frame by one discard_frame or layer_commit before the next
\* begin_frame or end_session and make discard_frame and the layer calls
\* only while a frame is open; and frame_started is true exactly when the
\* compositor has a frame open.
C34_FrameBracketing ==
    /\ last.op # "none" => FrameBracketed(last.xc.frame, CompCalls(last.log))
    /\ (have_session /\ sess.compositor # NULL) =>
          (sess.frame_started <=> xc_state.frame)

C34_Witness ==
    /\ last.op = "end"
    /\ last.pre.compositor = XC
    /\ last.pre.frame_started
    /\ last.xc.frame
    /\ CompCalls(last.log) = <<"discard_frame", "end_session">>
    /\ ~xc_state.frame
    /\ ~sess.frame_started

----------------------------------------------------------------------------
\* C35: a call on the session that changes the state pushes events, and a
\* call that pushes events leaves the session in the state of the last of
\* them; a call that pushes none leaves the state as it was; the creation
\* pushes IDLE and READY and leaves the session in READY; and between calls
\* the state of the newest event pushed is the state of the session.
C35_EventsMirrorState ==
    /\ (last.op \notin {"none", "create"}) =>
          IF EventStates(last.log) = <<>>
          THEN sess.state = last.pre.state
          ELSE sess.state = EventStates(last.log)[Len(EventStates(last.log))]
    /\ (last.op = "create" /\ have_session) =>
          /\ EventStates(last.log) =
                << XR_SESSION_STATE_IDLE, XR_SESSION_STATE_READY >>
          /\ sess.state = XR_SESSION_STATE_READY
    /\ have_session => last_event = sess.state

C35_Witness ==
    /\ last.op = "end"
    /\ last.ret = XR_SUCCESS
    /\ EventStates(last.log) = << XR_SESSION_STATE_IDLE, XR_SESSION_STATE_EXITING >>
    /\ last_event = XR_SESSION_STATE_EXITING
    /\ sess.state = XR_SESSION_STATE_EXITING

----------------------------------------------------------------------------
\* C36 as stated: a frame_end that reaches validation and whose first
\* invalid layer is a stereo projection that gets as far as a view with a
\* NULL swapchain returns an error: the process does not die in it and the
\* layer is not submitted.
C36_Original ==
    ReachesValidation =>
        \A i \in 1..Len(last.args.layers) :
            ( /\ FirstInvalid(last.args.layers, i)
              /\ ~DefinedLayer(last.args.layers[i]) )
            =>
            /\ last.ret # CRASHED
            /\ IsError(last.ret)
            /\ LayerCallsOf(last.log) = {}

====
